---- MODULE Spec2Model ----
(***************************************************************************)
(* A model of the h3cellstore tableset name codec, tableset discovery,     *)
(* multi-resolution query planner and uncompaction engine.                 *)
(*                                                                         *)
(* Strings are sequences of one-character strings, so that formatting,     *)
(* regular-expression matching, substring search and replacement are       *)
(* computed character by character as the program computes them.           *)
(***************************************************************************)
EXTENDS Integers, Sequences, FiniteSets, TLC

\* ------------------------------------------------------------------------
\* Characters and strings

LowerLetters == {"a", "b", "c", "d", "e", "f", "g", "h", "i", "j", "k", "l", "m",
                 "n", "o", "p", "q", "r", "s", "t", "u", "v", "w", "x", "y", "z"}

UpperLetters == {"A", "B", "Z"}

Letters == LowerLetters \cup UpperLetters

Digits == {"0", "1", "2", "3", "4", "5", "6", "7", "8", "9"}

\* the character class [a-zA-Z_0-9] of RE_TABLE
WordChars == Letters \cup Digits \cup {"_"}

\* characters outside [a-zA-Z_0-9] that occur in names and templates
OtherChars == {"-", " ", "<", ">", "[", "]", ",", "*", "="}

Chars == WordChars \cup OtherChars

DigitChar(n) == CASE n = 0 -> "0" [] n = 1 -> "1" [] n = 2 -> "2" [] n = 3 -> "3"
                  [] n = 4 -> "4" [] n = 5 -> "5" [] n = 6 -> "6" [] n = 7 -> "7"
                  [] n = 8 -> "8" [] n = 9 -> "9"

DigitVal(c) == CHOOSE n \in 0..9 : DigitChar(n) = c

RECURSIVE ToDecimal(_)
\* Display of an unsigned integer: its decimal digits, no padding
ToDecimal(n) == IF n < 10 THEN <<DigitChar(n)>>
                ELSE ToDecimal(n \div 10) \o <<DigitChar(n % 10)>>

\* the conversion done by a different bug: no zero padding at all
Format02Unpadded(n) == ToDecimal(n)

\* format!("{:02}", n): zero-padded to a minimum width of two
Format02(n) == IF Len(ToDecimal(n)) < 2 THEN <<"0">> \o ToDecimal(n) ELSE ToDecimal(n)

\* str::parse::<u8>() of a string of decimal digits
RECURSIVE ParseDecimal(_)
ParseDecimal(s) == IF Len(s) = 0 THEN 0
                   ELSE 10 * ParseDecimal(SubSeq(s, 1, Len(s) - 1)) + DigitVal(s[Len(s)])

HasPrefix(s, p) == Len(s) >= Len(p) /\ SubSeq(s, 1, Len(p)) = p

Drop(s, n) == SubSeq(s, n + 1, Len(s))

AllIn(s, C) == \A i \in 1..Len(s) : s[i] \in C

\* str::contains: p occurs in s as a contiguous substring
Contains(s, p) == \E i \in 1..(Len(s) - Len(p) + 1) : SubSeq(s, i, i + Len(p) - 1) = p

\* Option<T>
None == [some |-> FALSE]

Some(x) == [some |-> TRUE, val |-> x]

\* ------------------------------------------------------------------------
\* Table name codec

STR_BASE == <<"_", "b", "a", "s", "e">>

STR_COMPACTED == <<"_", "c", "o", "m", "p", "a", "c", "t", "e", "d">>

STR_TMP == <<"_", "t", "m", "p">>

TableSpec(r, c, k, b) == [h3_resolution |-> r, is_compacted |-> c, temporary_key |-> k, has_base_suffix |-> b]

Table(n, s) == [basename |-> n, spec |-> s]

is_temporary(spec) == spec.temporary_key.some

\* group 1 of RE_TABLE, ([a-zA-Z].[a-zA-Z_0-9]+): a letter, any one character,
\* then one or more word characters
RE_TABLE_Group1(g) ==
    /\ Len(g) >= 3
    /\ g[1] \in Letters
    /\ g[2] \in Chars
    /\ AllIn(Drop(g, 2), WordChars)

\* The tail of RE_TABLE, (_tmp([a-zA-Z0-9_]+))?$, matched against b, after
\* captures g2 and g4: None, or Some of the captures 2, 4 and 6.
RE_TABLE_Tmp(g2, g4, b) ==
    IF b = <<>> THEN Some([g2 |-> g2, g4 |-> g4, g6 |-> None])
    ELSE IF HasPrefix(b, STR_TMP) /\ Len(b) > Len(STR_TMP) /\ AllIn(Drop(b, Len(STR_TMP)), WordChars)
         THEN Some([g2 |-> g2, g4 |-> g4, g6 |-> Some(Drop(b, Len(STR_TMP)))])
         ELSE None

\* The part of RE_TABLE after group 1, _([0-9]{2})(_(base|compacted))?(_tmp([a-zA-Z0-9_]+))?$,
\* matched against t. The optional groups are tried greedily; as "_base",
\* "_compacted" and "_tmp" start differently, no backtracking changes the result.
RE_TABLE_Rest(t) ==
    IF ~(Len(t) >= 3 /\ t[1] = "_" /\ t[2] \in Digits /\ t[3] \in Digits) THEN None
    ELSE IF HasPrefix(Drop(t, 3), STR_COMPACTED)
         THEN RE_TABLE_Tmp(SubSeq(t, 2, 3), Some(Drop(STR_COMPACTED, 1)), Drop(t, 3 + Len(STR_COMPACTED)))
    ELSE IF HasPrefix(Drop(t, 3), STR_BASE)
         THEN RE_TABLE_Tmp(SubSeq(t, 2, 3), Some(Drop(STR_BASE, 1)), Drop(t, 3 + Len(STR_BASE)))
    ELSE RE_TABLE_Tmp(SubSeq(t, 2, 3), None, Drop(t, 3))

\* the lengths of the prefixes of s that group 1 of RE_TABLE matches
RE_TABLE_Group1Ends(s) == {n \in 1..Len(s) : RE_TABLE_Group1(SubSeq(s, 1, n))}

\* the captures of s split after n characters: group 1, and those of the rest
CapturesAt(s, n, rest) == [g1 |-> SubSeq(s, 1, n), g2 |-> rest.g2, g4 |-> rest.g4, g6 |-> rest.g6]

\* the longest of the matching splits: the "+" of group 1 is greedy
LongestCaptures(s, ends) ==
    IF ends = {} THEN None
    ELSE Some(CapturesAt(s, CHOOSE m \in ends : \A k \in ends : k <= m,
                         RE_TABLE_Rest(Drop(s, CHOOSE m \in ends : \A k \in ends : k <= m)).val))

\* RE_TABLE.captures(s), given the prefix lengths g1ends group 1 can match
RegexCaptures(s, g1ends) == LongestCaptures(s, {n \in g1ends : RE_TABLE_Rest(Drop(s, n)).some})

\* a Table built without its temporary key
TableOfCapturesDropsKey(c) ==
    IF ~c.some THEN None
    ELSE Some(Table(c.val.g1,
                    TableSpec(ParseDecimal(c.val.g2), c.val.g4 = Some(Drop(STR_COMPACTED, 1)), None, c.val.g4.some)))

\* the Table built from the captures (lines 45-57 of Table::parse)
TableOfCaptures(c) ==
    IF ~c.some THEN None
    ELSE Some(Table(c.val.g1,
                    TableSpec(ParseDecimal(c.val.g2),
                              IF c.val.g4.some THEN c.val.g4.val = Drop(STR_COMPACTED, 1) ELSE FALSE,
                              c.val.g6,
                              c.val.g4.some)))

\* Table::parse
Parse(full_table_name) == TableOfCaptures(RegexCaptures(full_table_name, RE_TABLE_Group1Ends(full_table_name)))

\* an emitter that writes the resolution without zero padding
ToTableNameUnpadded(t) ==
    t.basename \o <<"_">> \o Format02Unpadded(t.spec.h3_resolution)
      \o (IF t.spec.has_base_suffix THEN (IF t.spec.is_compacted THEN STR_COMPACTED ELSE STR_BASE) ELSE <<>>)
      \o (IF t.spec.temporary_key.some THEN STR_TMP \o t.spec.temporary_key.val ELSE <<>>)

\* Table::to_table_name
ToTableName(t) ==
    t.basename \o <<"_">> \o Format02(t.spec.h3_resolution)
      \o (IF t.spec.has_base_suffix THEN (IF t.spec.is_compacted THEN STR_COMPACTED ELSE STR_BASE) ELSE <<>>)
      \o (IF t.spec.temporary_key.some THEN STR_TMP \o t.spec.temporary_key.val ELSE <<>>)

\* ------------------------------------------------------------------------
\* Tableset discovery

\* HashMap::insert
MapInsert(m, k, v) == [x \in (DOMAIN m) \cup {k} |-> IF x = k THEN v ELSE m[x]]

EmptyMap == <<>>

\* TableSet::new
TableSetNew(basename) == [basename |-> basename, columns |-> EmptyMap, base_tables |-> EmptyMap, compacted_tables |-> EmptyMap]

\* the tableset of basename in tablesets, a new one if there is none:
\* tablesets.entry(basename).or_insert_with(|| TableSet::new(basename))
EntryOrNew(tablesets, basename) ==
    IF basename \in DOMAIN tablesets THEN tablesets[basename] ELSE TableSetNew(basename)

\* an insertion that files every table under the base tables
WithTableAsBase(tableset, spec) ==
    [tableset EXCEPT !.base_tables = MapInsert(@, spec.h3_resolution, spec)]

\* tableset with the table's spec inserted under its resolution
WithTable(tableset, spec) ==
    IF spec.is_compacted
    THEN [tableset EXCEPT !.compacted_tables = MapInsert(@, spec.h3_resolution, spec)]
    ELSE [tableset EXCEPT !.base_tables = MapInsert(@, spec.h3_resolution, spec)]

\* a loop body that does not skip temporary tables
FindTablesetsInsertKeepsTemporary(tablesets, p) ==
    IF ~p.some THEN tablesets
    ELSE MapInsert(tablesets, p.val.basename, WithTable(EntryOrNew(tablesets, p.val.basename), p.val.spec))

\* the body of the loop of find_tablesets, for the parse result p of one name
FindTablesetsInsert(tablesets, p) ==
    IF ~p.some THEN tablesets
    ELSE IF is_temporary(p.val.spec) THEN tablesets
    ELSE MapInsert(tablesets, p.val.basename, WithTable(EntryOrNew(tablesets, p.val.basename), p.val.spec))

RECURSIVE FindTablesetsFrom(_, _, _)
FindTablesetsFrom(names, i, acc) ==
    IF i > Len(names) THEN acc
    ELSE FindTablesetsFrom(names, i + 1, FindTablesetsInsert(acc, Parse(names[i])))

\* find_tablesets
FindTablesets(names) == FindTablesetsFrom(names, 1, EmptyMap)

\* ------------------------------------------------------------------------
\* H3 cells
\*
\* The cell hierarchy of h3ron with one base cell and two children per cell:
\* cell 1 is the cell of resolution 0, the children of cell h are 2h and 2h+1.
\* An h3index is the cell's number; its text is the decimal number.

H3_MIN_RESOLUTION == 0

\* finest resolution of the cells
MaxRes == 2

RECURSIVE Resolution(_)
\* H3Cell::resolution, Index::resolution
Resolution(h) == IF h <= 1 THEN H3_MIN_RESOLUTION ELSE 1 + Resolution(h \div 2)

RECURSIVE CellsAt(_)
\* the cells of one resolution
CellsAt(r) == IF r = H3_MIN_RESOLUTION THEN {1} ELSE UNION {{2 * h, 2 * h + 1} : h \in CellsAt(r - 1)}

H3Cells == UNION {CellsAt(r) : r \in H3_MIN_RESOLUTION..MaxRes}

RECURSIVE GetParent(_, _)
\* H3Cell::get_parent, for a resolution not finer than the cell's
GetParent(h, r) == IF Resolution(h) <= r THEN h ELSE GetParent(h \div 2, r)

RECURSIVE GetChildren(_, _)
\* Index::get_children: the descendants at resolution r, as a Vec
GetChildren(h, r) == IF Resolution(h) >= r THEN <<h>> ELSE GetChildren(2 * h, r) \o GetChildren(2 * h + 1, r)

\* ------------------------------------------------------------------------
\* Results, joining and replacing

\* Result<T, Error>
Ok(v) == [ok |-> TRUE, val |-> v]

Err(kind, arg) == [ok |-> FALSE, kind |-> kind, arg |-> arg]

RECURSIVE Join(_, _)
\* itertools::join
Join(parts, sep) == IF Len(parts) = 0 THEN <<>>
                    ELSE IF Len(parts) = 1 THEN parts[1]
                    ELSE parts[1] \o sep \o Join(Tail(parts), sep)

\* a replacement of the first occurrence of pat only
ReplaceFirst(s, pat, to) ==
    IF ~Contains(s, pat) THEN s
    ELSE SubSeq(s, 1, (CHOOSE i \in 1..Len(s) : HasPrefix(Drop(s, i - 1), pat) /\ \A j \in 1..(i - 1) : ~HasPrefix(Drop(s, j - 1), pat)) - 1)
         \o to
         \o Drop(s, (CHOOSE i \in 1..Len(s) : HasPrefix(Drop(s, i - 1), pat) /\ \A j \in 1..(i - 1) : ~HasPrefix(Drop(s, j - 1), pat)) - 1 + Len(pat))

RECURSIVE Replace(_, _, _)
\* str::replace: every non-overlapping occurrence of pat, from the left
Replace(s, pat, to) == IF Len(s) < Len(pat) THEN s
                       ELSE IF HasPrefix(s, pat) THEN to \o Replace(Drop(s, Len(pat)), pat, to)
                       ELSE <<s[1]>> \o Replace(Tail(s), pat, to)

\* the orders in which a HashSet or the keys of a HashMap can be iterated
IterationOrders(S) == {f \in [1..Cardinality(S) -> S] : \A i, j \in 1..Cardinality(S) : i # j => f[i] # f[j]}

RECURSIVE Ascending(_)
\* the elements of a set of numbers as an ascending sequence
Ascending(S) == IF S = {} THEN <<>>
                ELSE <<CHOOSE m \in S : \A x \in S : m <= x>> \o Ascending(S \ {CHOOSE m \in S : \A x \in S : m <= x})

\* ------------------------------------------------------------------------
\* Query planner

COL_NAME_H3INDEX == <<"h", "3", "i", "n", "d", "e", "x">>

STR_PLACEHOLDER_TABLE == <<"<", "[", "t", "a", "b", "l", "e", "]", ">">>

STR_PLACEHOLDER_H3INDEXES == <<"<", "[", "h", "3", "i", "n", "d", "e", "x", "e", "s", "]", ">">>

\* the placeholders, in the order validate looks for them
Placeholders == <<STR_PLACEHOLDER_TABLE, STR_PLACEHOLDER_H3INDEXES>>

STR_SELECT == <<"s", "e", "l", "e", "c", "t", " ">>

STR_COMMA == <<",", " ">>

STR_FROM == <<" ", "f", "r", "o", "m", " ">>

STR_WHERE == <<" ", "w", "h", "e", "r", "e", " ">>

STR_IN == <<" ", "i", "n", " ">>

STR_UNION_ALL == <<" ", "u", "n", "i", "o", "n", " ", "a", "l", "l", " ">>

\* TableSetQuery
AutoGenerated == [kind |-> "AutoGenerated"]

TemplatedSelect(querystring) == [kind |-> "TemplatedSelect", querystring |-> querystring]

RECURSIVE ValidateFrom(_, _)
\* the loop of validate over the placeholders, from the i-th on
ValidateFrom(querystring, i) ==
    IF i > Len(Placeholders) THEN Ok(<<>>)
    ELSE IF ~Contains(querystring, Placeholders[i]) THEN Err("MissingQueryPlaceholder", Placeholders[i])
    ELSE ValidateFrom(querystring, i + 1)

\* a validation that looks for the placeholders in the opposite order
ValidateH3indexesFirst(query) ==
    IF query.kind = "AutoGenerated" THEN Ok(<<>>)
    ELSE IF ~Contains(query.querystring, STR_PLACEHOLDER_H3INDEXES) THEN Err("MissingQueryPlaceholder", STR_PLACEHOLDER_H3INDEXES)
    ELSE IF ~Contains(query.querystring, STR_PLACEHOLDER_TABLE) THEN Err("MissingQueryPlaceholder", STR_PLACEHOLDER_TABLE)
    ELSE Ok(<<>>)

\* TableSetQuery::validate
Validate(query) == IF query.kind = "AutoGenerated" THEN Ok(<<>>) ELSE ValidateFrom(query.querystring, 1)

\* resolutions that get no sub-query at the resolution of the cells
QueryableResolutionsBelow(tableset, h3_resolution) ==
    {r \in (DOMAIN tableset.base_tables) \cup (DOMAIN tableset.compacted_tables) : r < h3_resolution}

\* the keys of queryable_h3indexes: the resolutions up to the cells' that
\* have a base or a compacted table
QueryableResolutions(tableset, h3_resolution) ==
    {r \in (DOMAIN tableset.base_tables) \cup (DOMAIN tableset.compacted_tables) : r <= h3_resolution}

\* queryable_h3indexes once the loop over the cells has run: per resolution
\* the set of the parents of the cells
QueryableH3indexes(tableset, cells) ==
    [r \in QueryableResolutions(tableset, Resolution(cells[1])) |-> {GetParent(cells[i], r) : i \in 1..Len(cells)}]

\* a test that misses cells coarser than the first
HasFinerCell(cells) == \E i \in 1..Len(cells) : Resolution(cells[i]) > Resolution(cells[1])

\* some cell is not of the resolution of the first: the loop returns MixedH3Resolutions
HasMixedResolutions(cells) == \E i \in 1..Len(cells) : Resolution(cells[i]) # Resolution(cells[1])

\* the iteration orders of every set of a map of sets
SetOrders(m) == {f \in [DOMAIN m -> UNION {IterationOrders(m[r]) : r \in DOMAIN m}] : \A r \in DOMAIN m : f[r] \in IterationOrders(m[r])}

\* The orders in which build_select_query can meet the columns of the tableset
\* and the h3indexes of each set: those of the hash collections.
HashIterations(tableset, cells) ==
    [columns : IterationOrders(DOMAIN tableset.columns),
     sets : SetOrders(IF cells = <<>> THEN EmptyMap ELSE QueryableH3indexes(tableset, cells))]

\* selectable_columns
SelectableColumns(columns) == Join(SelectSeq(columns, LAMBDA c : ~HasPrefix(c, COL_NAME_H3INDEX)), STR_COMMA)

\* query_h3indexesarray_string
H3indexesArrayString(h3indexes) == <<"[">> \o Join([i \in 1..Len(h3indexes) |-> ToDecimal(h3indexes[i])], <<",">>) \o <<"]">>

\* has_base_suffix of the queried table: that of the table's spec, true without one
HasBaseSuffix(tables, r) == IF r \in DOMAIN tables THEN tables[r].has_base_suffix ELSE TRUE

\* tablename
QueriedTableName(tableset, h3_resolution, r) ==
    ToTableName(Table(tableset.basename,
                      TableSpec(r, r # h3_resolution, None,
                                HasBaseSuffix(IF r # h3_resolution THEN tableset.compacted_tables ELSE tableset.base_tables, r))))

\* one element of query_string_parts
QueryStringPart(query, selectable_columns, tablename, array_string) ==
    IF query.kind = "AutoGenerated"
    THEN STR_SELECT \o COL_NAME_H3INDEX \o STR_COMMA \o selectable_columns \o STR_FROM \o tablename
           \o STR_WHERE \o COL_NAME_H3INDEX \o STR_IN \o array_string
    ELSE Replace(Replace(query.querystring, STR_PLACEHOLDER_TABLE, tablename), STR_PLACEHOLDER_H3INDEXES, array_string)

RECURSIVE QueryStringParts(_, _, _, _, _)
\* query_string_parts, from resolution r on
QueryStringParts(tableset, query, iter, h3_resolution, r) ==
    IF r > h3_resolution THEN <<>>
    ELSE (IF r \in DOMAIN iter.sets
          THEN <<QueryStringPart(query, SelectableColumns(iter.columns), QueriedTableName(tableset, h3_resolution, r),
                                 H3indexesArrayString(iter.sets[r]))>>
          ELSE <<>>)
         \o QueryStringParts(tableset, query, iter, h3_resolution, r + 1)

\* TableSet::build_select_query, with the iteration orders iter of its hash collections
BuildSelectQuery(tableset, cells, query, iter) ==
    IF ~Validate(query).ok THEN Validate(query)
    ELSE IF cells = <<>> THEN Err("EmptyCells", <<>>)
    ELSE IF HasMixedResolutions(cells) THEN Err("MixedH3Resolutions", <<>>)
    ELSE IF DOMAIN iter.sets = {} THEN Err("NoQueryableTables", <<>>)
    ELSE Ok(Join(QueryStringParts(tableset, query, iter, Resolution(cells[1]), H3_MIN_RESOLUTION), STR_UNION_ALL))

\* ------------------------------------------------------------------------
\* Uncompaction

\* valid_children: the children of h at h3_res that are in h3index_set
ValidChildren(h3index_set, h3_res, h) == SelectSeq(GetChildren(h, h3_res), LAMBDA hi : hi \in h3index_set)

\* what one row of the h3index column appends to h3_vec
Uncompacted(h3index_set, h3_res, h) == IF Resolution(h) < h3_res THEN ValidChildren(h3index_set, h3_res, h) ELSE <<h>>

RECURSIVE H3Vec(_, _, _)
\* h3_vec
H3Vec(h3index_set, h3_res, h3indexes) ==
    IF h3indexes = <<>> THEN <<>>
    ELSE Uncompacted(h3index_set, h3_res, Head(h3indexes)) \o H3Vec(h3index_set, h3_res, Tail(h3indexes))

\* repetitions counted before the children are filtered
RowRepetitionsOfAllChildren(h3index_set, h3_res, h3indexes) ==
    [i \in 1..Len(h3indexes) |-> IF Resolution(h3indexes[i]) < h3_res THEN Len(GetChildren(h3indexes[i], h3_res)) ELSE 1]

\* row_repetitions
RowRepetitions(h3index_set, h3_res, h3indexes) ==
    [i \in 1..Len(h3indexes) |->
        IF Resolution(h3indexes[i]) < h3_res THEN Len(ValidChildren(h3index_set, h3_res, h3indexes[i])) ELSE 1]

RECURSIVE ItemRepeatingIterator(_, _)
\* ItemRepeatingIterator: every item as often as its repetitions say
ItemRepeatingIterator(items, repetitions) ==
    IF items = <<>> THEN <<>>
    ELSE [j \in 1..Head(repetitions) |-> Head(items)] \o ItemRepeatingIterator(Tail(items), Tail(repetitions))

\* collect_with_reps, as read_column calls it for the values of a column
CollectWithReps(items, row_reps) ==
    IF row_reps.some THEN ItemRepeatingIterator(items, row_reps.val.row_repetitions) ELSE items

\* the first row of the h3index column that is finer than h3_res
FirstFiner(h3_res, h3indexes) ==
    CHOOSE i \in 1..Len(h3indexes) :
        /\ Resolution(h3indexes[i]) > h3_res
        /\ \A j \in 1..(i - 1) : Resolution(h3indexes[j]) <= h3_res

\* a check of the resolution of the first row only, and no uncompaction
UncompactBlockCheckingFirstRow(h3index_set, h3_res, block) ==
    IF COL_NAME_H3INDEX \notin DOMAIN block THEN Err("ColumnNotFound", COL_NAME_H3INDEX)
    ELSE IF block[COL_NAME_H3INDEX] # <<>> /\ Resolution(block[COL_NAME_H3INDEX][1]) > h3_res
         THEN Err("InvalidH3Resolution", Resolution(block[COL_NAME_H3INDEX][1]))
    ELSE Ok(block)

\* query_all_with_uncompacting from the fetched block on
UncompactBlock(h3index_set, h3_res, block) ==
    IF COL_NAME_H3INDEX \notin DOMAIN block THEN Err("ColumnNotFound", COL_NAME_H3INDEX)
    ELSE IF \E i \in 1..Len(block[COL_NAME_H3INDEX]) : Resolution(block[COL_NAME_H3INDEX][i]) > h3_res
         THEN Err("InvalidH3Resolution", Resolution(block[COL_NAME_H3INDEX][FirstFiner(h3_res, block[COL_NAME_H3INDEX])]))
    ELSE Ok([c \in DOMAIN block |->
                IF c = COL_NAME_H3INDEX THEN H3Vec(h3index_set, h3_res, block[COL_NAME_H3INDEX])
                ELSE CollectWithReps(block[c],
                                     Some([num_uncompacted_rows |-> Len(H3Vec(h3index_set, h3_res, block[COL_NAME_H3INDEX])),
                                           row_repetitions |-> RowRepetitions(h3index_set, h3_res, block[COL_NAME_H3INDEX])]))])

\* ------------------------------------------------------------------------
\* Column enrichment of list_tablesets

\* TableSet::tables
tables(ts) ==
    {Table(ts.basename, ts.base_tables[r]) : r \in DOMAIN ts.base_tables}
        \cup {Table(ts.basename, ts.compacted_tables[r]) : r \in DOMAIN ts.compacted_tables}

\* a count of the base tables only
num_base_tables(ts) == Cardinality(DOMAIN ts.base_tables)

\* TableSet::num_tables
num_tables(ts) == Cardinality(DOMAIN ts.base_tables) + Cardinality(DOMAIN ts.compacted_tables)

\* The rows of
\*   select name, type, count(*) as c from system.columns
\*   where table in (set_table_names) and not startsWith(name, 'h3index')
\*   group by name, type
\* over columns_of, the columns (name -> type) of each table of the database.
ColumnRows(set_table_names, columns_of) ==
    {[name |-> g[1], type |-> g[2],
      c |-> Cardinality({t \in set_table_names \cap DOMAIN columns_of :
                            g[1] \in DOMAIN columns_of[t] /\ columns_of[t][g[1]] = g[2]})] :
        g \in {h \in UNION {{<<n, columns_of[t][n]>> : n \in DOMAIN columns_of[t]} :
                               t \in set_table_names \cap DOMAIN columns_of} :
                 ~HasPrefix(h[1], COL_NAME_H3INDEX)}}

RECURSIVE InsertColumns(_, _, _)
\* the loop over the rows of the column query, from row i on: a row whose
\* count is num_tables() is inserted into ts.columns, any other is ignored
InsertColumns(ts, rows, i) ==
    IF i > Len(rows) THEN ts
    ELSE InsertColumns(IF rows[i].c = num_tables(ts)
                       THEN [ts EXCEPT !.columns = MapInsert(@, rows[i].name, rows[i].type)]
                       ELSE ts,
                       rows, i + 1)

\* The maps list_tablesets can return for the tablesets found: each tableset
\* gets the columns of the rows of its column query, which the database
\* returns in any order.
EnrichedTableSets(found, columns_of) ==
    {f \in [DOMAIN found ->
                UNION {{InsertColumns(found[b], rows, 1) :
                           rows \in IterationOrders(ColumnRows({ToTableName(t) : t \in tables(found[b])}, columns_of))} :
                       b \in DOMAIN found}] :
        \A b \in DOMAIN found :
            \E rows \in IterationOrders(ColumnRows({ToTableName(t) : t \in tables(found[b])}, columns_of)) :
                f[b] = InsertColumns(found[b], rows, 1)}

\* ------------------------------------------------------------------------
\* Schema and DDL compiler

\* A ColumnDefinition: H3Index, or Simple / WithAggregation around a
\* SimpleColumn {datatype, order_key_position}; a datatype has an SQL type
\* and is temporal or not.
ColumnDefinition(kind, sqltype, temporal, order_key_position) ==
    [kind |-> kind, datatype |-> [sqltype |-> sqltype, temporal |-> temporal], order_key_position |-> order_key_position]

\* ColumnDefinition::H3Index: a u64 without order key position
H3Index == ColumnDefinition("H3Index", <<"U", "I", "n", "t", "6", "4">>, FALSE, None)

\* the rank of the byte of a word character among the bytes of the word
\* characters: digits, upper case letters, the underscore, lower case letters
CharCode ==
    [c \in WordChars |->
        CHOOSE i \in 1..63 :
            (<<"0", "1", "2", "3", "4", "5", "6", "7", "8", "9", "A", "B", "C", "D", "E", "F", "G", "H", "I", "J", "K", "L", "M", "N", "O", "P", "Q", "R", "S", "T", "U", "V", "W", "X", "Y", "Z">> \o <<"_", "a", "b", "c", "d", "e", "f", "g", "h", "i", "j", "k", "l", "m", "n", "o", "p", "q", "r", "s", "t", "u", "v", "w", "x", "y", "z">>)[i] = c]

\* a.cmp(b) == Ordering::Less of two strings of word characters
StrLess(a, b) ==
    \E i \in 1..(Len(b)) :
        /\ i <= Len(a) + 1
        /\ \A j \in 1..(i - 1) : a[j] = b[j]
        /\ (i = Len(a) + 1 \/ CharCode[a[i]] < CharCode[b[i]])

\* a comparison by position only, without the column name as second criteria
PosLess(a, b) == a.pos < b.pos

\* the comparison of sorted_by in order_by_column_names is Ordering::Less: by
\* position, and by column name for equal positions
PosNameLess(a, b) == a.pos < b.pos \/ (a.pos = b.pos /\ StrLess(a.name, b.name))

\* Itertools::sorted_by of (pos, column_name) pairs, a stable sort: an item
\* goes behind the items that are less, and behind the equal items that come
\* before it; then the map to the column names
SortedBy(items) ==
    [i \in DOMAIN items |->
        items[CHOOSE j \in DOMAIN items :
                 Cardinality({k \in DOMAIN items :
                     \/ PosNameLess(items[k], items[j])
                     \/ (~PosNameLess(items[j], items[k]) /\ k < j)}) = i - 1].name]

\* Iterator::filter: the items of seq that are in S, in their order
FilterSeq(seq, S) ==
    [i \in 1..Cardinality({j \in DOMAIN seq : seq[j] \in S}) |->
        seq[CHOOSE j \in DOMAIN seq : seq[j] \in S /\ Cardinality({k \in 1..j : seq[k] \in S}) = i]]

\* pairs that leave the h3index column at its key position
OrderByKeysOfPositions(schema, names) ==
    [i \in DOMAIN names |->
        [pos |-> (IF schema.columns[names[i]].order_key_position.some
                  THEN schema.columns[names[i]].order_key_position.val ELSE 10),
         name |-> names[i]]]

\* the (pos, column_name) pairs of order_by_column_names for the column names
\* that pass its filter: the key position, 10 by default, less 100 for h3index
OrderByKeys(schema, names) ==
    [i \in DOMAIN names |->
        [pos |-> (IF schema.columns[names[i]].order_key_position.some
                  THEN schema.columns[names[i]].order_key_position.val ELSE 10)
                 - (IF names[i] = COL_NAME_H3INDEX THEN 100 ELSE 0),
         name |-> names[i]]]

\* CompactedTableSchema::order_by_column_names, the columns iterated in the
\* order iter
order_by_column_names(schema, iter) ==
    SortedBy(OrderByKeys(schema, FilterSeq(iter, {n \in DOMAIN schema.columns :
        schema.columns[n].order_key_position.some \/ n = COL_NAME_H3INDEX})))

\* CompactedTableSchema::h3index_column (with get_column_def)
h3index_column(schema) ==
    IF COL_NAME_H3INDEX \notin DOMAIN schema.columns THEN Err("SchemaValidationError", <<"m", "i", "s", "s", "i", "n", "g">>)
    ELSE IF schema.columns[COL_NAME_H3INDEX] = H3Index THEN Ok(H3Index)
    ELSE Err("SchemaValidationError", <<"n", "o", "t", " ", "a", " ", "h", "3", "i", "n", "d", "e", "x", " ", "c", "o", "l", "u", "m", "n">>)

\* an expression that partitions every temporal column by month
partition_by_expression_by_month(column_name, def, temporal_partitioning) ==
    IF def.kind = "H3Index" THEN <<"h", "3", "G", "e", "t", "B", "a", "s", "e", "C", "e", "l", "l", "(">> \o column_name \o <<")">>
    ELSE IF def.datatype.temporal THEN <<"t", "o", "S", "t", "r", "i", "n", "g", "(", "t", "o", "M", "o", "n", "t", "h", "(">> \o column_name \o <<")", ")">>
    ELSE column_name

\* partition_by_expression
partition_by_expression(column_name, def, temporal_partitioning) ==
    IF def.kind = "H3Index" THEN <<"h", "3", "G", "e", "t", "B", "a", "s", "e", "C", "e", "l", "l", "(">> \o column_name \o <<")">>
    ELSE IF def.datatype.temporal
         THEN (IF temporal_partitioning = "Year" THEN <<"t", "o", "S", "t", "r", "i", "n", "g", "(", "t", "o", "Y", "e", "a", "r", "(">> ELSE <<"t", "o", "S", "t", "r", "i", "n", "g", "(", "t", "o", "M", "o", "n", "t", "h", "(">>) \o column_name \o <<")", ")">>
         ELSE column_name

RECURSIVE PushNew(_, _, _)
\* the expressions exprs[i..] pushed to partition_by, each unless
\* partition_by contains it
PushNew(partition_by, exprs, i) ==
    IF i > Len(exprs) THEN partition_by
    ELSE PushNew(IF \E k \in DOMAIN partition_by : partition_by[k] = exprs[i]
                 THEN partition_by ELSE Append(partition_by, exprs[i]),
                 exprs, i + 1)

\* the partition expressions of the columns named, in that order
PartitionExprs(schema, names) ==
    [i \in DOMAIN names |-> partition_by_expression(names[i], schema.columns[names[i]], schema.temporal_partitioning)]

\* CompactedTableSchema::partition_by_expressions, the columns iterated in
\* the order iter
partition_by_expressions(schema, iter) ==
    IF ~h3index_column(schema).ok THEN h3index_column(schema)
    ELSE IF schema.partition_by_columns = <<>>
    THEN (IF Len(PushNew(PartitionExprs(schema, <<COL_NAME_H3INDEX>>),
                         PartitionExprs(schema, FilterSeq(iter, {n \in DOMAIN schema.columns : schema.columns[n].datatype.temporal})), 1)) > 2
          THEN Err("SchemaValidationError", <<"m", "u", "l", "t", "i", "p", "l", "e", " ", "t", "e", "m", "p", "o", "r", "a", "l", " ", "c", "o", "l", "u", "m", "n", "s">>)
          ELSE Ok(PushNew(PartitionExprs(schema, <<COL_NAME_H3INDEX>>),
                          PartitionExprs(schema, FilterSeq(iter, {n \in DOMAIN schema.columns : schema.columns[n].datatype.temporal})), 1)))
    ELSE IF \E k \in DOMAIN schema.partition_by_columns : schema.partition_by_columns[k] \notin DOMAIN schema.columns
    THEN Err("SchemaValidationError", <<"m", "i", "s", "s", "i", "n", "g">>)
    ELSE Ok(PushNew(PartitionExprs(schema, <<COL_NAME_H3INDEX>>), PartitionExprs(schema, schema.partition_by_columns), 1))

\* the statements of create_statements for the (h3_resolution, is_compacted)
\* pairs, one after the other; sorted are the column names, sorted
CreateStatementsOf(schema, pairs, sorted, partition_by, order_by) ==
    [i \in DOMAIN pairs |->
        <<"\n", "C", "R", "E", "A", "T", "E", " ", "T", "A", "B", "L", "E", " ", "I", "F", " ", "N", "O", "T", " ", "E", "X", "I", "S", "T", "S", " ">>
          \o ToTableName(Table(schema.name, TableSpec(pairs[i][1], pairs[i][2], None, schema.has_base_suffix)))
          \o <<" ", "(", "\n">>
          \o Join([k \in DOMAIN sorted |->
                      <<" ">> \o sorted[k] \o <<" ">> \o schema.columns[sorted[k]].datatype.sqltype
                        \o <<" ", "C", "O", "D", "E", "C", "(">> \o schema.compression_method.kind
                        \o <<"(">> \o ToDecimal(schema.compression_method.level) \o <<")", ")">>],
                  <<",", "\n">>)
          \o <<"\n", ")", "\n", "E", "N", "G", "I", "N", "E", " ">>
          \o (IF schema.table_engine.kind = <<"S", "u", "m", "m", "i", "n", "g", "M", "e", "r", "g", "e", "T", "r", "e", "e">>
              THEN <<"S", "u", "m", "m", "i", "n", "g", "M", "e", "r", "g", "e", "T", "r", "e", "e", "(">> \o Join(schema.table_engine.columns, <<",", " ">>) \o <<")">>
              ELSE schema.table_engine.kind)
          \o <<"\n", "P", "A", "R", "T", "I", "T", "I", "O", "N", " ", "B", "Y", " ", "(">> \o partition_by \o <<")", "\n", "O", "R", "D", "E", "R", " ", "B", "Y", " ", "(">> \o order_by \o <<")", ";", "\n">>]

\* CreateSchema::create_statements of a CompactedTableSchema, the columns
\* iterated in the order iter: a statement for each base resolution as given
\* and, with use_compaction, for each of 0..=max as compacted
create_statements(schema, iter) ==
    IF ~partition_by_expressions(schema, iter).ok THEN partition_by_expressions(schema, iter)
    ELSE IF schema.use_compaction /\ schema.h3_base_resolutions = <<>> THEN Err("MixedResolutions", <<>>)
    ELSE Ok(CreateStatementsOf(
                schema,
                [i \in DOMAIN schema.h3_base_resolutions |-> <<schema.h3_base_resolutions[i], FALSE>>]
                    \o (IF schema.use_compaction
                        THEN [i \in 1..((CHOOSE m \in {schema.h3_base_resolutions[k] : k \in DOMAIN schema.h3_base_resolutions} :
                                            \A k \in DOMAIN schema.h3_base_resolutions : schema.h3_base_resolutions[k] <= m) + 1) |->
                                 <<i - 1, TRUE>>]
                        ELSE <<>>),
                SortedBy([k \in DOMAIN iter |-> [pos |-> 0, name |-> iter[k]]]),
                Join(partition_by_expressions(schema, iter).val, <<",", " ">>),
                Join(order_by_column_names(schema, iter), <<",", " ">>)))

\* validate_table_name: the name matches ^[A-Za-z][A-Za-z0-9_]*$
validate_table_name(name) == name # <<>> /\ name[1] \in Letters /\ AllIn(name, WordChars)

\* CompressionMethod::validate: a level of 1..22 for ZSTD, of 0..12 for LZ4HC
compression_method_validate(compression_method) ==
    IF compression_method.kind = <<"Z", "S", "T", "D">> THEN compression_method.level \in 1..22
    ELSE compression_method.level \in 0..12

\* ordered_h3_resolutions: the resolutions sorted and deduplicated, an error
\* for a resolution above 15
ordered_h3_resolutions(h3_resolutions) ==
    IF \E k \in DOMAIN h3_resolutions : h3_resolutions[k] > 15
    THEN Err("SchemaValidationError", <<"r", "e", "s", "o", "l", "u", "t", "i", "o", "n">>)
    ELSE Ok(Ascending({h3_resolutions[k] : k \in DOMAIN h3_resolutions}))

\* ValidateSchema::validate of a CompactedTableSchema, the columns iterated
\* in the order iter
ValidateSchema(schema, iter) ==
    IF ~validate_table_name(schema.name) THEN Err("SchemaValidationError", <<"n", "a", "m", "e">>)
    ELSE IF ~compression_method_validate(schema.compression_method) THEN Err("SchemaValidationError", <<"c", "o", "m", "p", "r", "e", "s", "s", "i", "o", "n">>)
    ELSE IF ~h3index_column(schema).ok THEN h3index_column(schema)
    ELSE IF schema.table_engine.kind = <<"S", "u", "m", "m", "i", "n", "g", "M", "e", "r", "g", "e", "T", "r", "e", "e">>
            /\ \E k \in DOMAIN schema.table_engine.columns : schema.table_engine.columns[k] \notin DOMAIN schema.columns
    THEN Err("SchemaValidationError", <<"S", "u", "m", "m", "i", "n", "g", "M", "e", "r", "g", "e", "T", "r", "e", "e", " ", "e", "n", "g", "i", "n", "e", " ", "i", "s", " ", "m", "i", "s", "s", "i", "n", "g", " ", "c", "o", "l", "u", "m", "n", "s">>)
    ELSE IF ~ordered_h3_resolutions(schema.h3_base_resolutions).ok THEN ordered_h3_resolutions(schema.h3_base_resolutions)
    ELSE IF ordered_h3_resolutions(schema.h3_base_resolutions).val = <<>>
    THEN Err("SchemaValidationError", <<"a", "t", " ", "l", "e", "a", "s", "t", " ", "o", "n", "e", " ", "h", "3", " ", "b", "a", "s", "e", " ", "r", "e", "s", "o", "l", "u", "t", "i", "o", "n", " ", "i", "s", " ", "r", "e", "q", "u", "i", "r", "e", "d">>)
    ELSE IF ~partition_by_expressions(schema, iter).ok THEN partition_by_expressions(schema, iter)
    ELSE Ok(<<>>)

\* ------------------------------------------------------------------------
\* Sliding window
\*
\* A SlidingH3Window is the record of its window_indexes, its iter_pos, its
\* target_h3_resolution and its window_polygon, the polygon being the set of
\* the cells of the target resolution that intersect it. The database is the
\* set of its rows <<is_compacted, h3index>>: a row of the table of the
\* resolution of h3index.

\* a cursor that moves on every call, also at the end of the list
next_window_moving_on(w) ==
    [window |-> [w EXCEPT !.iter_pos = @ + 1],
     result |-> IF w.iter_pos + 1 \in DOMAIN w.window_indexes THEN Some(w.window_indexes[w.iter_pos + 1]) ELSE None]

\* SlidingH3Window::next_window: the window after the call and what the call
\* returns
next_window(w) ==
    IF w.iter_pos + 1 \in DOMAIN w.window_indexes
    THEN [window |-> [w EXCEPT !.iter_pos = @ + 1], result |-> Some(w.window_indexes[w.iter_pos + 1])]
    ELSE [window |-> w, result |-> None]

\* ClickhouseConnection::has_data: a query for the h3index in the base table
\* of its resolution and for its parents in the compacted tables up to its
\* resolution; no query without such a table; fails: the database fails
has_data(ts, rows, h3index, fails) ==
    IF {t \in tables(ts) : \/ (~t.spec.is_compacted /\ t.spec.h3_resolution = Resolution(h3index))
                           \/ (t.spec.is_compacted /\ t.spec.h3_resolution <= Resolution(h3index))} = {}
    THEN Ok(FALSE)
    ELSE IF fails THEN Err("ClickhouseError", <<>>)
    ELSE Ok(\E t \in {t \in tables(ts) : \/ (~t.spec.is_compacted /\ t.spec.h3_resolution = Resolution(h3index))
                                         \/ (t.spec.is_compacted /\ t.spec.h3_resolution <= Resolution(h3index))} :
                <<t.spec.is_compacted, GetParent(h3index, t.spec.h3_resolution)>> \in rows)

\* a driver that ends at the first window without data
fetch_next_window_until_empty(w, ts, rows, fail_at) ==
    IF ~next_window(w).result.some THEN [window |-> w, result |-> Ok(None)]
    ELSE IF ~has_data(ts, rows, next_window(w).result.val, next_window(w).window.iter_pos = fail_at).ok
    THEN [window |-> next_window(w).window,
          result |-> has_data(ts, rows, next_window(w).result.val, next_window(w).window.iter_pos = fail_at)]
    ELSE IF ~has_data(ts, rows, next_window(w).result.val, next_window(w).window.iter_pos = fail_at).val
    THEN [window |-> next_window(w).window, result |-> Ok(None)]
    ELSE [window |-> next_window(w).window, result |-> Ok(Some([num_h3indexes_queried |-> 0]))]

RECURSIVE fetch_next_window_retrying(_, _, _, _)
\* a driver that leaves the cursor before the window whose probe failed
fetch_next_window_retrying(w, ts, rows, fail_at) ==
    IF ~next_window(w).result.some THEN [window |-> w, result |-> Ok(None)]
    ELSE IF ~has_data(ts, rows, next_window(w).result.val, next_window(w).window.iter_pos = fail_at).ok
    THEN [window |-> w,
          result |-> has_data(ts, rows, next_window(w).result.val, next_window(w).window.iter_pos = fail_at)]
    ELSE IF ~has_data(ts, rows, next_window(w).result.val, next_window(w).window.iter_pos = fail_at).val
    THEN fetch_next_window_retrying(next_window(w).window, ts, rows, fail_at)
    ELSE [window |-> next_window(w).window, result |-> Ok(Some([num_h3indexes_queried |-> 0]))]

RECURSIVE fetch_next_window(_, _, _, _)
\* ClickhouseConnection::fetch_next_window: the window after the call and
\* what the call returns; the database fails at the probe of the window
\* index at fail_at, if that probe is sent. The ResultSet of fetch_tableset
\* holds the number of the children, of the target resolution and inside
\* the polygon, that it was asked for.
fetch_next_window(w, ts, rows, fail_at) ==
    IF ~next_window(w).result.some THEN [window |-> w, result |-> Ok(None)]
    ELSE IF ~has_data(ts, rows, next_window(w).result.val, next_window(w).window.iter_pos = fail_at).ok
    THEN [window |-> next_window(w).window,
          result |-> has_data(ts, rows, next_window(w).result.val, next_window(w).window.iter_pos = fail_at)]
    ELSE IF ~has_data(ts, rows, next_window(w).result.val, next_window(w).window.iter_pos = fail_at).val
    THEN fetch_next_window(next_window(w).window, ts, rows, fail_at)
    ELSE [window |-> next_window(w).window,
          result |-> Ok(Some([num_h3indexes_queried |->
                        Cardinality({i \in DOMAIN GetChildren(next_window(w).result.val, w.target_h3_resolution) :
                                        GetChildren(next_window(w).result.val, w.target_h3_resolution)[i] \in w.window_polygon})]))]

\* ------------------------------------------------------------------------
\* Result sets
\*
\* The task handle of an AwaitableResultSet is modelled by what the query
\* task comes to: Ok(columnset) or an error. A ResultSet is the record of its
\* column_data, Either::Left or Either::Right around an Option, and its
\* query_duration, in microseconds.

\* a wait that leaves the handle where it is
wait_until_finished_keeping_handle(awaitable, elapsed) ==
    IF awaitable.handle.some
    THEN [awaitable |-> awaitable,
          awaited |-> TRUE,
          result |-> IF awaitable.handle.val.ok THEN Ok(<<awaitable.handle.val.val, elapsed>>) ELSE awaitable.handle.val]
    ELSE [awaitable |-> awaitable, awaited |-> FALSE, result |-> Err("PyRuntimeError", <<"r", "e", "s", "u", "l", "t", "s", "e", "t", " ", "c", "a", "n", " ", "o", "n", "l", "y", " ", "b", "e", " ", "a", "w", "a", "i", "t", "e", "d", " ", "o", "n", "c", "e">>)]

\* AwaitableResultSet::wait_until_finished: the object after the call,
\* whether the call awaited the query, and what it returns; elapsed is the
\* time since the query started
wait_until_finished(awaitable, elapsed) ==
    IF awaitable.handle.some
    THEN [awaitable |-> [awaitable EXCEPT !.handle = None],
          awaited |-> TRUE,
          result |-> IF awaitable.handle.val.ok THEN Ok(<<awaitable.handle.val.val, elapsed>>) ELSE awaitable.handle.val]
    ELSE [awaitable |-> awaitable, awaited |-> FALSE, result |-> Err("PyRuntimeError", <<"r", "e", "s", "u", "l", "t", "s", "e", "t", " ", "c", "a", "n", " ", "o", "n", "l", "y", " ", "b", "e", " ", "a", "w", "a", "i", "t", "e", "d", " ", "o", "n", "c", "e">>)]

\* an await that keeps the duration and drops the data
await_column_data_without_data(rs, elapsed) ==
    IF rs.column_data.side = "Right" /\ rs.column_data.val.some
    THEN (IF wait_until_finished(rs.column_data.val.val, elapsed).result.ok
          THEN [resultset |-> [column_data |-> [side |-> "Left", val |-> None],
                               query_duration |-> Some(wait_until_finished(rs.column_data.val.val, elapsed).result.val[2])],
                result |-> Ok(<<>>)]
          ELSE [resultset |-> [rs EXCEPT !.column_data.val = None],
                result |-> wait_until_finished(rs.column_data.val.val, elapsed).result])
    ELSE [resultset |-> rs, result |-> Ok(<<>>)]

\* an await that keeps the data and drops the duration
await_column_data_without_duration(rs, elapsed) ==
    IF rs.column_data.side = "Right" /\ rs.column_data.val.some
    THEN (IF wait_until_finished(rs.column_data.val.val, elapsed).result.ok
          THEN [resultset |-> [column_data |-> [side |-> "Left",
                                                val |-> Some(wait_until_finished(rs.column_data.val.val, elapsed).result.val[1])],
                               query_duration |-> None],
                result |-> Ok(<<>>)]
          ELSE [resultset |-> [rs EXCEPT !.column_data.val = None],
                result |-> wait_until_finished(rs.column_data.val.val, elapsed).result])
    ELSE [resultset |-> rs, result |-> Ok(<<>>)]

\* an await that leaves the awaitable in the result set when the wait fails
await_column_data_keeping_awaitable(rs, elapsed) ==
    IF rs.column_data.side = "Right" /\ rs.column_data.val.some
    THEN (IF wait_until_finished(rs.column_data.val.val, elapsed).result.ok
          THEN [resultset |-> [column_data |-> [side |-> "Left",
                                                val |-> Some(wait_until_finished(rs.column_data.val.val, elapsed).result.val[1])],
                               query_duration |-> Some(wait_until_finished(rs.column_data.val.val, elapsed).result.val[2])],
                result |-> Ok(<<>>)]
          ELSE [resultset |-> rs,
                result |-> wait_until_finished(rs.column_data.val.val, elapsed).result])
    ELSE [resultset |-> rs, result |-> Ok(<<>>)]

\* ResultSet::await_column_data: the result set after the call and what the
\* call returns
await_column_data(rs, elapsed) ==
    IF rs.column_data.side = "Right" /\ rs.column_data.val.some
    THEN (IF wait_until_finished(rs.column_data.val.val, elapsed).result.ok
          THEN [resultset |-> [column_data |-> [side |-> "Left",
                                                val |-> Some(wait_until_finished(rs.column_data.val.val, elapsed).result.val[1])],
                               query_duration |-> Some(wait_until_finished(rs.column_data.val.val, elapsed).result.val[2])],
                result |-> Ok(<<>>)]
          ELSE [resultset |-> [rs EXCEPT !.column_data.val = None],
                result |-> wait_until_finished(rs.column_data.val.val, elapsed).result])
    ELSE [resultset |-> rs, result |-> Ok(<<>>)]

\* ------------------------------------------------------------------------
\* Tuning knobs

ENV_NAME_CELLWALK_NUM_CLICKHOUSE_THREADS == <<"B", "A", "M", "B", "O", "O", "_", "C", "E", "L", "L", "W", "A", "L", "K", "_", "N", "U", "M", "_", "C", "L", "I", "C", "K", "H", "O", "U", "S", "E", "_", "T", "H", "R", "E", "A", "D", "S">>

DEFAULT_CELLWALK_NUM_CLICKHOUSE_THREADS == 2

ENV_NAME_CELLWALK_NUM_CONCURRENT_PRELOAD_QUERIES == <<"B", "A", "M", "B", "O", "O", "_", "C", "E", "L", "L", "W", "A", "L", "K", "_", "N", "U", "M", "_", "C", "O", "N", "C", "U", "R", "R", "E", "N", "T", "_", "P", "R", "E", "L", "O", "A", "D", "_", "Q", "U", "E", "R", "I", "E", "S">>

DEFAULT_CELLWALK_NUM_CONCURRENT_PRELOAD_QUERIES == 3

\* str::parse::<u8>(): an optional plus sign, then one or more decimal
\* digits whose value fits eight bits
ParseU8(s) ==
    IF /\ Len(s) > (IF HasPrefix(s, <<"+">>) THEN 1 ELSE 0)
       /\ AllIn(IF HasPrefix(s, <<"+">>) THEN Drop(s, 1) ELSE s, Digits)
       /\ ParseDecimal(IF HasPrefix(s, <<"+">>) THEN Drop(s, 1) ELSE s) < 2^8
    THEN Ok(ParseDecimal(IF HasPrefix(s, <<"+">>) THEN Drop(s, 1) ELSE s))
    ELSE Err("ParseIntError", s)

\* get_numeric_env_with_default_and_min, of the value std::env::var gives for
\* the name: None where the variable is not set
get_numeric_env_with_default_and_min(env_value, default, min_value) ==
    IF ~env_value.some THEN default
    ELSE IF ~ParseU8(env_value.val).ok THEN default
    ELSE IF ParseU8(env_value.val).val <= min_value THEN ParseU8(env_value.val).val
    ELSE min_value

\* ------------------------------------------------------------------------
\* Saving a ColumnSet
\*
\* A ColumnSet is the record of its columns, a map from the name to the
\* datatype and the values of the column. The compacted data is a set of
\* rows, each the h3index with the values of the other columns. What the
\* database was asked to do is a sequence of execute and insert calls.

RECURSIVE to_compacted(_)
\* ColumnSet::to_compacted, from the rows of the ColumnSet on: the children
\* of a cell that are all there with the same values in the other columns
\* are replaced by the cell
to_compacted(rows) ==
    LET complete == {m \in H3Cells \X {row.others : row \in rows} :
                        /\ Resolution(m[1]) < MaxRes
                        /\ \A i \in DOMAIN GetChildren(m[1], Resolution(m[1]) + 1) :
                              [h3index |-> GetChildren(m[1], Resolution(m[1]) + 1)[i], others |-> m[2]] \in rows}
    IN IF complete = {} THEN rows
       ELSE to_compacted(
                {row \in rows : ~\E i \in DOMAIN GetChildren((CHOOSE m \in complete : TRUE)[1],
                                                             Resolution((CHOOSE m \in complete : TRUE)[1]) + 1) :
                                    row = [h3index |-> GetChildren((CHOOSE m \in complete : TRUE)[1],
                                                                   Resolution((CHOOSE m \in complete : TRUE)[1]) + 1)[i],
                                           others |-> (CHOOSE m \in complete : TRUE)[2]]}
                  \cup {[h3index |-> (CHOOSE m \in complete : TRUE)[1], others |-> (CHOOSE m \in complete : TRUE)[2]]})

\* ColumnSet::split_by_resolution: the rows by the resolution of their
\* h3index
split_by_resolution(rows) ==
    [r \in {Resolution(row.h3index) : row \in rows} |-> {row \in rows : Resolution(row.h3index) = r}]

\* CompactedTableSchema::max_h3_resolution: the greatest base resolution
max_h3_resolution(ct_schema) ==
    IF ct_schema.h3_base_resolutions = <<>> THEN Err("SchemaValidationError", <<>>)
    ELSE Ok(CHOOSE m \in {ct_schema.h3_base_resolutions[k] : k \in DOMAIN ct_schema.h3_base_resolutions} :
                \A k \in DOMAIN ct_schema.h3_base_resolutions : ct_schema.h3_base_resolutions[k] <= m)

\* The calls save_columnset_to_compactedtables makes to the database when
\* none of them fails: the statements are executed, then the data of each
\* resolution is inserted into its table, in the order drain. The database
\* fails at its call number fail_at, if it gets that many, and that is the
\* last call then.
ExecuteAndInsert(ct_schema, splitted, statements, schema_max_res, drain, fail_at) ==
    [result |-> IF fail_at \in 1..(Len(statements) + Len(drain)) THEN Err("ClickhouseError", <<>>) ELSE Ok(<<>>),
     executed |-> SubSeq([i \in DOMAIN statements |-> [op |-> "execute", statement |-> statements[i]]]
                           \o [i \in DOMAIN drain |->
                                  [op |-> "insert",
                                   table |-> ToTableName(Table(ct_schema.name,
                                                               TableSpec(drain[i], schema_max_res # drain[i],
                                                                         None, ct_schema.has_base_suffix))),
                                   block |-> splitted[drain[i]]]],
                         1,
                         IF fail_at \in 1..(Len(statements) + Len(drain)) THEN fail_at ELSE Len(statements) + Len(drain))]

\* a writer that looks at the resolutions after it wrote
save_columnset_to_compactedtables_checking_last(ct_schema, splitted, iter, drain, fail_at) ==
    IF DOMAIN splitted = {} THEN [result |-> Ok(<<>>), executed |-> <<>>]
    ELSE IF ~max_h3_resolution(ct_schema).ok THEN [result |-> max_h3_resolution(ct_schema), executed |-> <<>>]
    ELSE IF ~create_statements(ct_schema, iter).ok THEN [result |-> create_statements(ct_schema, iter), executed |-> <<>>]
    ELSE IF \E r \in DOMAIN splitted : r > max_h3_resolution(ct_schema).val
    THEN [result |-> Err("InvalidH3Resolution", CHOOSE m \in DOMAIN splitted : \A r \in DOMAIN splitted : r <= m),
          executed |-> ExecuteAndInsert(ct_schema, splitted, create_statements(ct_schema, iter).val,
                                        max_h3_resolution(ct_schema).val, drain, 0).executed]
    ELSE ExecuteAndInsert(ct_schema, splitted, create_statements(ct_schema, iter).val,
                          max_h3_resolution(ct_schema).val, drain, fail_at)

\* save_columnset_to_compactedtables, from the split data on: the result and
\* what the database was asked to do. The schema's columns are iterated in
\* the order iter, the split data is drained in the order drain.
save_columnset_to_compactedtables(ct_schema, splitted, iter, drain, fail_at) ==
    IF DOMAIN splitted = {} THEN [result |-> Ok(<<>>), executed |-> <<>>]
    ELSE IF ~max_h3_resolution(ct_schema).ok THEN [result |-> max_h3_resolution(ct_schema), executed |-> <<>>]
    ELSE IF \E r \in DOMAIN splitted : r > max_h3_resolution(ct_schema).val
    THEN [result |-> Err("InvalidH3Resolution", CHOOSE m \in DOMAIN splitted : \A r \in DOMAIN splitted : r <= m),
          executed |-> <<>>]
    ELSE IF ~create_statements(ct_schema, iter).ok THEN [result |-> create_statements(ct_schema, iter), executed |-> <<>>]
    ELSE ExecuteAndInsert(ct_schema, splitted, create_statements(ct_schema, iter).val,
                          max_h3_resolution(ct_schema).val, drain, fail_at)

\* save_columnset: the columns of the ColumnSet are checked in the order
\* column_iter, the first one that the schema does not have or has with
\* another datatype ends the call
save_columnset(schema, columnset, column_iter, iter, drain, fail_at) ==
    IF \E i \in DOMAIN column_iter :
          \/ column_iter[i] \notin DOMAIN schema.columns
          \/ columnset.columns[column_iter[i]].datatype # schema.columns[column_iter[i]].datatype
    THEN [result |-> IF column_iter[CHOOSE i \in DOMAIN column_iter :
                                       /\ \/ column_iter[i] \notin DOMAIN schema.columns
                                          \/ columnset.columns[column_iter[i]].datatype # schema.columns[column_iter[i]].datatype
                                       /\ \A j \in 1..(i - 1) :
                                             /\ column_iter[j] \in DOMAIN schema.columns
                                             /\ columnset.columns[column_iter[j]].datatype = schema.columns[column_iter[j]].datatype]
                            \in DOMAIN schema.columns
                     THEN Err("IncompatibleDatatype", <<>>)
                     ELSE Err("ColumnNotFound",
                              column_iter[CHOOSE i \in DOMAIN column_iter :
                                              /\ column_iter[i] \notin DOMAIN schema.columns
                                              /\ \A j \in 1..(i - 1) :
                                                    /\ column_iter[j] \in DOMAIN schema.columns
                                                    /\ columnset.columns[column_iter[j]].datatype = schema.columns[column_iter[j]].datatype]),
          executed |-> <<>>]
    ELSE save_columnset_to_compactedtables(
             schema,
             split_by_resolution(to_compacted(
                 {[h3index |-> columnset.columns[COL_NAME_H3INDEX].values[i],
                   others |-> [n \in DOMAIN columnset.columns \ {COL_NAME_H3INDEX} |-> columnset.columns[n].values[i]]] :
                     i \in DOMAIN columnset.columns[COL_NAME_H3INDEX].values})),
             iter, drain, fail_at)

\* ------------------------------------------------------------------------
\* State

VARIABLES
    \* name codec
    origin,             \* "table": a Table is emitted and parsed back; "name": a given name is parsed
    table,              \* the Table handed to to_table_name
    full_table_name,    \* the table name: emitted, or given
    parsed,             \* the result of Table::parse(full_table_name)
    codec_pc,           \* "new", "named", "parsed", or "idle"
    \* tableset discovery
    tablenames,         \* the table names the database lists
    tablesets,          \* the map find_tablesets returns
    discovery_pc,       \* "listed", "found", or "idle"
    \* query planner
    tableset,           \* the TableSet that plans the query
    cells,              \* the cells handed to build_select_query
    query,              \* the TableSetQuery handed to build_select_query
    validation,         \* the result of query.validate()
    plan,               \* the result of build_select_query
    planner_pc,         \* "ready", "planned", or "idle"
    \* uncompaction
    h3index_set,        \* the h3indexes handed to query_all_with_uncompacting
    block,              \* the block the database returns: column name -> values
    h3_res,             \* the resolution of the h3index the set yields first
    columnset,          \* the result of query_all_with_uncompacting
    queries_sent,       \* the number of queries query_all_with_uncompacting sent
    uncompact_pc,       \* "fetched", "uncompacted", or "idle"
    \* list_tablesets
    system_columns,     \* system.columns: table name -> (column name -> type)
    listed,             \* the result of list_tablesets, None before the call
    \* schema and DDL compiler
    builder,            \* the CompactedTableSchemaBuilder, None where there is none
    built,              \* the result of build, None before the call
    statements,         \* the result of create_statements, None before the call
    \* sliding window
    sliding_h3_window,  \* the SlidingH3Window, None where there is none
    window_tableset,    \* the tableset handed to fetch_next_window
    window_rows,        \* the rows of the tables of the tableset
    calls,              \* the calls made so far, with what they returned
    \* result sets
    awaitable,          \* an AwaitableResultSet, None where there is none
    resultset,          \* a ResultSet, None where there is none
    returns,            \* the calls made on the two so far, with what they returned
    \* tuning knobs
    environment,        \* the environment of the process: name -> value, None where not set
    knob,               \* the knob read last and its value, None before any was read
    \* saving a ColumnSet
    save_schema,        \* the schema handed to save_columnset, None where there is none
    to_save,            \* the ColumnSet handed to save_columnset
    executed,           \* what the database was asked to do so far
    saved               \* what save_columnset returned, None before the call

codec_vars == <<origin, table, full_table_name, parsed, codec_pc>>

discovery_vars == <<tablenames, tablesets, discovery_pc>>

planner_vars == <<tableset, cells, query, validation, plan, planner_pc>>

uncompact_vars == <<h3index_set, block, h3_res, columnset, queries_sent, uncompact_pc>>

\* the components that follow the first four
later_vars == <<system_columns, listed, builder, built, statements,
                sliding_h3_window, window_tableset, window_rows, calls,
                awaitable, resultset, returns, environment, knob,
                save_schema, to_save, executed, saved>>

vars == <<codec_vars, discovery_vars, planner_vars, uncompact_vars, later_vars>>

\* ------------------------------------------------------------------------
\* Inputs of the name codec

\* longest basename, counted in characters
MaxBaseLen == 3

\* longest temporary key, counted in characters
MaxKeyLen == 3

\* h3 resolutions
Resolutions == 0..15

StringsOver(A, n) == UNION {[1..k -> A] : k \in 0..n}

\* basenames accepted as a table name: a letter, then word characters
BaseNames == {<<"a">> \o s : s \in StringsOver({"b", "_"}, MaxBaseLen - 1)}

TemporaryKeys == {None} \cup {Some(k) : k \in StringsOver({"k", "_", "7"}, MaxKeyLen) \ {<<>>}}

Tables == {Table(n, TableSpec(r, c, k, b)) : n \in BaseNames, r \in Resolutions, c \in BOOLEAN, k \in TemporaryKeys, b \in BOOLEAN}

NameHeads == {<<>>, <<"a">>, <<"a", "b">>, <<"a", "b", "c">>, <<"a", "-", "b">>, <<"a", " ", "b">>,
              <<"a", "b", "-">>, <<"5", "a", "b">>, <<"_", "a", "b">>, <<"-", "a", "b">>,
              <<"Z", "7", "_", "b">>, <<"a", "b", "c", "_", "0", "5">>, <<"a", "<", "b", "_", "b", "a", "s", "e">>}

NameTails == {<<>>, <<"_", "0", "5">>, <<"_", "5">>, <<"_", "0", "0", "5">>, <<"_", "9", "9">>, <<"_", "0", "5", "x">>,
              <<"_", "1", "5">> \o STR_BASE, <<"_", "0", "5">> \o STR_COMPACTED,
              <<"_", "0", "5">> \o SubSeq(STR_BASE, 1, 4), <<"_", "0", "5">> \o STR_BASE \o <<"_">>,
              <<"_", "0", "5">> \o STR_TMP, <<"_", "0", "5">> \o STR_TMP \o <<"5", "t">>,
              <<"_", "0", "5">> \o STR_TMP \o <<"k", "-">>,
              <<"_", "0", "5">> \o STR_BASE \o STR_TMP \o <<"5", "t">>,
              <<"_", "0", "5">> \o STR_COMPACTED \o STR_TMP \o <<"x", "_", "0", "7">>,
              <<"_", "0", "5">> \o STR_BASE \o STR_COMPACTED,
              <<"_", "0", "5">> \o STR_TMP \o <<"k">> \o STR_BASE}

\* table names as a database lists them: of tablesets and of unrelated tables
InputNames == {h \o t : h \in NameHeads, t \in NameTails}

\* ------------------------------------------------------------------------
\* Name codec: operations

CodecIdle ==
    /\ origin = "none"
    /\ table = None
    /\ full_table_name = <<>>
    /\ parsed = None
    /\ codec_pc = "idle"

CodecInit ==
    \/ /\ origin = "table"
       /\ table \in Tables
       /\ full_table_name = <<>>
       /\ parsed = None
       /\ codec_pc = "new"
    \/ /\ origin = "name"
       /\ table = None
       /\ full_table_name \in InputNames
       /\ parsed = None
       /\ codec_pc = "named"

\* table.to_table_name()
EmitName ==
    /\ codec_pc = "new"
    /\ full_table_name' = ToTableName(table)
    /\ codec_pc' = "named"
    /\ UNCHANGED <<origin, table, parsed, discovery_vars, planner_vars, uncompact_vars, later_vars>>

\* Table::parse(&full_table_name)
ParseName ==
    /\ codec_pc = "named"
    /\ parsed' = Parse(full_table_name)
    /\ codec_pc' = "parsed"
    /\ UNCHANGED <<origin, table, full_table_name, discovery_vars, planner_vars, uncompact_vars, later_vars>>


\* ------------------------------------------------------------------------
\* Tableset discovery: inputs and operations

\* most table names in the listing
MaxNames == 3

\* tables of two tablesets (one without the _base suffix), temporary tables,
\* and names find_tablesets does not recognise
ListedNames == {
    <<"w", "a", "t", "_", "0", "0", "_", "b", "a", "s", "e">>,
    <<"w", "a", "t", "_", "0", "0", "_", "c", "o", "m", "p", "a", "c", "t", "e", "d">>,
    <<"w", "a", "t", "_", "0", "1", "_", "c", "o", "m", "p", "a", "c", "t", "e", "d">>,
    <<"e", "l", "k", "_", "0", "1">>,
    <<"e", "l", "k", "_", "0", "1", "_", "b", "a", "s", "e">>,
    <<"e", "l", "k", "_", "0", "0", "_", "c", "o", "m", "p", "a", "c", "t", "e", "d">>,
    <<"w", "a", "t", "_", "0", "1", "_", "b", "a", "s", "e", "_", "t", "m", "p", "k">>,
    <<"t", "m", "p", "_", "0", "1", "_", "t", "m", "p", "k">>,
    <<"o", "n", "e">>,
    <<"e", "v", "_", "0", "1">>
}

DiscoveryIdle ==
    /\ tablenames = <<>>
    /\ tablesets = EmptyMap
    /\ discovery_pc = "idle"

DiscoveryInit ==
    /\ \E n \in 0..MaxNames : tablenames \in [1..n -> ListedNames]
    /\ tablesets = EmptyMap
    /\ discovery_pc = "listed"

\* find_tablesets(&tablenames)
Discover ==
    /\ discovery_pc = "listed"
    /\ tablesets' = FindTablesets(tablenames)
    /\ discovery_pc' = "found"
    /\ UNCHANGED <<tablenames, codec_vars, planner_vars, uncompact_vars, later_vars>>

\* ------------------------------------------------------------------------
\* Query planner: inputs and operations

\* most cells of a query
MaxCells == 2

STR_V == <<"v">>

\* the columns of a tableset, as list_tablesets collects them: name -> type
ColumnMaps == {[c \in {STR_V} |-> "UInt8"], [c \in {STR_V, <<"w">>, COL_NAME_H3INDEX \o <<"_", "w">>} |-> "Float32"]}

\* A tableset as find_tablesets builds it: base tables at the resolutions B,
\* with or without the _base suffix, and compacted tables at the resolutions C.
TableSetOf(B, C, has_base_suffix, columns) ==
    [basename |-> <<"w", "a", "t">>,
     columns |-> columns,
     base_tables |-> [r \in B |-> TableSpec(r, FALSE, None, has_base_suffix)],
     compacted_tables |-> [r \in C |-> TableSpec(r, TRUE, None, TRUE)]]

\* the tablesets with at least one table, their columns among columnmaps
TableSets(columnmaps) ==
    {ts \in {TableSetOf(B, C, sfx, columns) : B \in SUBSET (H3_MIN_RESOLUTION..MaxRes), C \in SUBSET (H3_MIN_RESOLUTION..MaxRes),
                                              sfx \in BOOLEAN, columns \in columnmaps} :
        (DOMAIN ts.base_tables) \cup (DOMAIN ts.compacted_tables) # {}}

\* the tablesets planned with a template: one with tables at every
\* resolution, one with a single base table at the finest resolution
TemplatedTableSets ==
    {TableSetOf(H3_MIN_RESOLUTION..MaxRes, H3_MIN_RESOLUTION..(MaxRes - 1), TRUE, [c \in {STR_V} |-> "UInt8"]),
     TableSetOf({MaxRes}, {}, TRUE, [c \in {STR_V} |-> "UInt8"])}

\* select statements with and without the two placeholders
Templates ==
    {STR_SELECT \o <<"*">> \o STR_FROM \o t \o c :
        t \in {STR_PLACEHOLDER_TABLE, <<"t">>, <<"<", "[", "t", "a", "b", "l", "e", ">">>},
        c \in {<<>>, STR_WHERE \o COL_NAME_H3INDEX \o STR_IN \o STR_PLACEHOLDER_H3INDEXES,
               STR_WHERE \o COL_NAME_H3INDEX \o STR_IN \o <<"[", "1", "]">>}}

ValidTemplate == STR_SELECT \o <<"*">> \o STR_FROM \o STR_PLACEHOLDER_TABLE \o STR_WHERE \o COL_NAME_H3INDEX \o STR_IN \o STR_PLACEHOLDER_H3INDEXES

\* valid templates with repeated placeholders, and with a placeholder
\* inside what looks like the other one
RepeatingTemplates ==
    {<<"<", "[", "t", "a", "b", "l", "e", "]", ">", "<", "[", "t", "a", "b", "l", "e", "]", ">", " ", "<", "[", "h", "3", "i", "n", "d", "e", "x", "e", "s", "]", ">">> \o STR_IN \o STR_PLACEHOLDER_H3INDEXES,
     <<"<", "[", "t", "a", "b", "<", "[", "h", "3", "i", "n", "d", "e", "x", "e", "s", "]", ">", "l", "e", "]", ">">> \o STR_FROM \o STR_PLACEHOLDER_TABLE \o STR_IN \o STR_PLACEHOLDER_H3INDEXES,
     <<"<", "[", "h", "3", "i", "n", "d", "<", "[", "t", "a", "b", "l", "e", "]", ">", "e", "x", "e", "s", "]", ">">> \o STR_FROM \o STR_PLACEHOLDER_TABLE \o STR_IN \o STR_PLACEHOLDER_H3INDEXES}

PlannerIdle ==
    /\ tableset = None
    /\ cells = <<>>
    /\ query = AutoGenerated
    /\ validation = None
    /\ plan = None
    /\ planner_pc = "idle"

PlannerInit ==
    /\ \/ query = AutoGenerated /\ tableset \in TableSets(ColumnMaps)
       \/ query = TemplatedSelect(ValidTemplate) /\ tableset \in TableSets({[c \in {STR_V} |-> "UInt8"]})
       \/ query \in {TemplatedSelect(t) : t \in Templates \cup RepeatingTemplates} /\ tableset \in TemplatedTableSets
    /\ \E n \in 0..MaxCells : cells \in [1..n -> H3Cells]
    /\ validation = None
    /\ plan = None
    /\ planner_pc = "ready"

\* tableset.build_select_query(&cells, &query)
BuildQuery ==
    /\ planner_pc = "ready"
    /\ validation' = Validate(query)
    /\ \E iter \in HashIterations(tableset, cells) : plan' = BuildSelectQuery(tableset, cells, query, iter)
    /\ planner_pc' = "planned"
    /\ UNCHANGED <<tableset, cells, query, codec_vars, discovery_vars, uncompact_vars, later_vars>>

\* ------------------------------------------------------------------------
\* Uncompaction: inputs and operations

\* most rows of a block
MaxRows == 2

STR_ROW == <<"r", "o", "w">>

\* the values of the column v
Values == {10, 20}


\* a block with the columns h3index, v and row, row holding the row numbers
BlockOf(h3indexes, values) ==
    [c \in {COL_NAME_H3INDEX, STR_V, STR_ROW} |->
        IF c = COL_NAME_H3INDEX THEN h3indexes ELSE IF c = STR_V THEN values ELSE [i \in 1..Len(values) |-> i]]

\* a block without the column h3index
BlockWithout(values) == [c \in {STR_V, STR_ROW} |-> IF c = STR_V THEN values ELSE [i \in 1..Len(values) |-> i]]

\* the blocks of n rows
Blocks(n) == {BlockOf(hs, vs) : hs \in [1..n -> H3Cells], vs \in [1..n -> Values]} \cup {BlockWithout(vs) : vs \in [1..n -> Values]}

UncompactIdle ==
    /\ h3index_set = {}
    /\ block = EmptyMap
    /\ h3_res = None
    /\ columnset = None
    /\ queries_sent = 0
    /\ uncompact_pc = "idle"

UncompactInit ==
    /\ h3index_set \in {S \in SUBSET H3Cells : Cardinality(S) <= MaxCells}
    /\ \E n \in 0..MaxRows : block \in Blocks(n)
    /\ h3_res = None
    /\ columnset = None
    /\ queries_sent = 0
    /\ uncompact_pc = "fetched"

\* query_all_with_uncompacting(ch, query_string, h3index_set), the query
\* returning block; the set yields any of its h3indexes first
QueryAllWithUncompacting ==
    /\ uncompact_pc = "fetched"
    /\ IF h3index_set = {}
       THEN h3_res' = None /\ columnset' = Err("EmptyIndexes", <<>>) /\ queries_sent' = queries_sent
       ELSE \E first \in h3index_set :
               /\ h3_res' = Some(Resolution(first))
               /\ queries_sent' = queries_sent + 1
               /\ columnset' = UncompactBlock(h3index_set, Resolution(first), block)
    /\ uncompact_pc' = "uncompacted"
    /\ UNCHANGED <<h3index_set, block, codec_vars, discovery_vars, planner_vars, later_vars>>

\* ------------------------------------------------------------------------
\* list_tablesets: inputs and operations

MaxDbTables == 3

\* list_tablesets: the names of the tables with an h3index column, in the
\* order the database returns them, go to find_tablesets; each tableset found
\* then gets its columns
ListTablesets ==
    /\ listed = None
    /\ \E order \in IterationOrders(DOMAIN system_columns) :
           listed' \in {Some(e) : e \in EnrichedTableSets(FindTablesets(order), system_columns)}
    /\ UNCHANGED <<system_columns, codec_vars, discovery_vars, planner_vars, uncompact_vars, builder, built, statements,
                 sliding_h3_window, window_tableset, window_rows, calls, awaitable, resultset, returns, environment, knob,
                save_schema, to_save, executed, saved>>

\* ------------------------------------------------------------------------
\* Schema and DDL compiler: inputs and operations

MaxBaseResolutions == 2

\* CompactedTableSchemaBuilder::build
Build ==
    /\ builder.some
    /\ built = None
    /\ built' \in {Some(IF ValidateSchema(builder.val.schema, iter).ok
                        THEN Ok(builder.val.schema)
                        ELSE ValidateSchema(builder.val.schema, iter)) :
                      iter \in IterationOrders(DOMAIN builder.val.schema.columns)}
    /\ UNCHANGED <<builder, statements, codec_vars, discovery_vars, planner_vars, uncompact_vars, system_columns, listed,
                 sliding_h3_window, window_tableset, window_rows, calls, awaitable, resultset, returns, environment, knob,
                save_schema, to_save, executed, saved>>

\* create_statements of the schema that build returned
CreateStatements ==
    /\ built.some
    /\ built.val.ok
    /\ statements = None
    /\ statements' \in {Some(create_statements(built.val.val, iter)) :
                           iter \in IterationOrders(DOMAIN built.val.val.columns)}
    /\ UNCHANGED <<builder, built, codec_vars, discovery_vars, planner_vars, uncompact_vars, system_columns, listed,
                 sliding_h3_window, window_tableset, window_rows, calls, awaitable, resultset, returns, environment, knob,
                save_schema, to_save, executed, saved>>


\* ------------------------------------------------------------------------
\* Sliding window: inputs and operations

MaxWindows == 3

\* a call of next_window from Python
NextWindow ==
    /\ sliding_h3_window.some
    /\ Len(calls) < Len(sliding_h3_window.val.window_indexes) + 2
    /\ sliding_h3_window' = Some(next_window(sliding_h3_window.val).window)
    /\ calls' = Append(calls, [op |-> "next_window",
                               result |-> next_window(sliding_h3_window.val).result,
                               iter_pos |-> next_window(sliding_h3_window.val).window.iter_pos])
    /\ UNCHANGED <<window_tableset, window_rows, codec_vars, discovery_vars, planner_vars, uncompact_vars,
                   system_columns, listed, builder, built, statements, awaitable, resultset, returns, environment, knob,
                save_schema, to_save, executed, saved>>

\* a call of fetch_next_window from Python; the database answers every probe
\* or fails at one
FetchNextWindow ==
    /\ sliding_h3_window.some
    /\ Len(calls) < Len(sliding_h3_window.val.window_indexes) + 2
    /\ \E fail_at \in 0..Len(sliding_h3_window.val.window_indexes) :
        /\ sliding_h3_window' = Some(fetch_next_window(sliding_h3_window.val, window_tableset, window_rows, fail_at).window)
        /\ calls' = Append(calls, [op |-> "fetch_next_window",
                                   result |-> fetch_next_window(sliding_h3_window.val, window_tableset, window_rows, fail_at).result,
                                   iter_pos |-> fetch_next_window(sliding_h3_window.val, window_tableset, window_rows, fail_at).window.iter_pos])
    /\ UNCHANGED <<window_tableset, window_rows, codec_vars, discovery_vars, planner_vars, uncompact_vars,
                   system_columns, listed, builder, built, statements, awaitable, resultset, returns, environment, knob,
                save_schema, to_save, executed, saved>>

\* ------------------------------------------------------------------------
\* Result sets: inputs and operations

MaxCalls == 4

\* a call of wait_until_finished on the AwaitableResultSet
WaitUntilFinished ==
    /\ awaitable.some
    /\ Len(returns) < MaxCalls
    /\ \E elapsed \in {1500, 2000} :
        /\ awaitable' = Some(wait_until_finished(awaitable.val, elapsed).awaitable)
        /\ returns' = Append(returns, [op |-> "wait_until_finished",
                                       awaited |-> wait_until_finished(awaitable.val, elapsed).awaited,
                                       result |-> wait_until_finished(awaitable.val, elapsed).result])
    /\ UNCHANGED <<resultset, codec_vars, discovery_vars, planner_vars, uncompact_vars,
                   system_columns, listed, builder, built, statements,
                   sliding_h3_window, window_tableset, window_rows, calls, environment, knob,
                save_schema, to_save, executed, saved>>

\* ResultSet::get_columnset
GetColumnset ==
    /\ resultset.some
    /\ Len(returns) < MaxCalls
    /\ \E elapsed \in {1500, 2000} : \E a \in {await_column_data(resultset.val, elapsed)} :
        IF ~a.result.ok
        THEN /\ resultset' = Some(a.resultset)
             /\ returns' = Append(returns, [op |-> "get_columnset", awaited |-> TRUE, result |-> a.result])
        ELSE IF a.resultset.column_data.side = "Left"
        THEN /\ resultset' = Some([a.resultset EXCEPT !.column_data.val = None])
             /\ returns' = Append(returns, [op |-> "get_columnset", awaited |-> a.resultset # resultset.val,
                                            result |-> Ok(a.resultset.column_data.val)])
        ELSE /\ resultset' = Some(a.resultset)
             /\ returns' = Append(returns, [op |-> "get_columnset", awaited |-> FALSE, result |-> Ok(None)])
    /\ UNCHANGED <<awaitable, codec_vars, discovery_vars, planner_vars, uncompact_vars,
                   system_columns, listed, builder, built, statements,
                   sliding_h3_window, window_tableset, window_rows, calls, environment, knob,
                save_schema, to_save, executed, saved>>

\* ResultSet::get_query_duration_secs: the seconds as the milliseconds that
\* are divided by 1000.0
GetQueryDurationSecs ==
    /\ resultset.some
    /\ Len(returns) < MaxCalls
    /\ \E elapsed \in {1500, 2000} : \E a \in {await_column_data(resultset.val, elapsed)} :
        /\ resultset' = Some(a.resultset)
        /\ returns' = Append(returns,
               [op |-> "get_query_duration_secs",
                awaited |-> a.resultset # resultset.val,
                result |-> IF ~a.result.ok THEN a.result
                           ELSE IF a.resultset.query_duration.some
                                THEN Ok(Some([millis |-> a.resultset.query_duration.val \div 1000]))
                                ELSE Ok(None)])
    /\ UNCHANGED <<awaitable, codec_vars, discovery_vars, planner_vars, uncompact_vars,
                   system_columns, listed, builder, built, statements,
                   sliding_h3_window, window_tableset, window_rows, calls, environment, knob,
                save_schema, to_save, executed, saved>>

\* ------------------------------------------------------------------------
\* Tuning knobs: inputs and operations

\* cellwalk_num_clickhouse_threads
CellwalkNumClickhouseThreads ==
    /\ environment # EmptyMap
    /\ knob' = Some([env_name |-> ENV_NAME_CELLWALK_NUM_CLICKHOUSE_THREADS,
                     value |-> get_numeric_env_with_default_and_min(
                                   environment[ENV_NAME_CELLWALK_NUM_CLICKHOUSE_THREADS],
                                   DEFAULT_CELLWALK_NUM_CLICKHOUSE_THREADS, 1)])
    /\ UNCHANGED <<environment, codec_vars, discovery_vars, planner_vars, uncompact_vars,
                   system_columns, listed, builder, built, statements,
                   sliding_h3_window, window_tableset, window_rows, calls,
                   awaitable, resultset, returns, save_schema, to_save, executed, saved>>

\* cellwalk_num_concurrent_queries
CellwalkNumConcurrentQueries ==
    /\ environment # EmptyMap
    /\ knob' = Some([env_name |-> ENV_NAME_CELLWALK_NUM_CONCURRENT_PRELOAD_QUERIES,
                     value |-> get_numeric_env_with_default_and_min(
                                   environment[ENV_NAME_CELLWALK_NUM_CONCURRENT_PRELOAD_QUERIES],
                                   DEFAULT_CELLWALK_NUM_CONCURRENT_PRELOAD_QUERIES, 1)])
    /\ UNCHANGED <<environment, codec_vars, discovery_vars, planner_vars, uncompact_vars,
                   system_columns, listed, builder, built, statements,
                   sliding_h3_window, window_tableset, window_rows, calls,
                   awaitable, resultset, returns, save_schema, to_save, executed, saved>>

\* ------------------------------------------------------------------------
\* Saving a ColumnSet: inputs and operations

MaxSaveRows == 2

MaxDatabaseCalls == 5

\* a call of save_columnset: the two maps are iterated in any order, and the
\* database answers every call or fails at one of them
SaveColumnset ==
    /\ save_schema.some
    /\ saved = None
    /\ \E column_iter \in IterationOrders(DOMAIN to_save.val.columns),
          iter \in IterationOrders(DOMAIN save_schema.val.columns),
          fail_at \in 0..MaxDatabaseCalls :
          \E drain \in IterationOrders(DOMAIN split_by_resolution(to_compacted(
                           {[h3index |-> to_save.val.columns[COL_NAME_H3INDEX].values[i],
                             others |-> [n \in DOMAIN to_save.val.columns \ {COL_NAME_H3INDEX} |->
                                            to_save.val.columns[n].values[i]]] :
                               i \in DOMAIN to_save.val.columns[COL_NAME_H3INDEX].values}))) :
              \E returned \in {save_columnset(save_schema.val, to_save.val, column_iter, iter, drain, fail_at)} :
                  /\ saved' = Some(returned.result)
                  /\ executed' = executed \o returned.executed
    /\ UNCHANGED <<save_schema, to_save, codec_vars, discovery_vars, planner_vars, uncompact_vars,
                   system_columns, listed, builder, built, statements,
                   sliding_h3_window, window_tableset, window_rows, calls,
                   awaitable, resultset, returns, environment, knob>>

\* ------------------------------------------------------------------------
\* Specifications

\* every component but the active one is idle ("store": one of the first
\* four, whose specification says which); an idle list_tablesets has listed
\* an empty database
OthersIdle(active) ==
    /\ IF active = "store" THEN TRUE ELSE CodecIdle /\ DiscoveryIdle /\ PlannerIdle /\ UncompactIdle
    /\ IF active = "listing" THEN TRUE ELSE system_columns = EmptyMap /\ listed = Some(EmptyMap)
    /\ IF active = "schema" THEN TRUE ELSE builder = None /\ built = None /\ statements = None
    /\ IF active = "window" THEN TRUE
       ELSE sliding_h3_window = None /\ window_tableset = None /\ window_rows = {} /\ calls = <<>>
    /\ IF active = "resultset" THEN TRUE ELSE awaitable = None /\ resultset = None /\ returns = <<>>
    /\ IF active = "environment" THEN TRUE ELSE environment = EmptyMap /\ knob = None
    /\ IF active = "save" THEN TRUE ELSE save_schema = None /\ to_save = None /\ executed = <<>> /\ saved = None

\* The database has up to MaxDbTables tables with an h3index column, of the
\* tablesets wat and elk (elk_01 and elk_01_base are the same table of elk);
\* a table has the column h3index, and any of v (of two types), w and
\* h3index_w.
InitListing ==
    /\ \E T \in {S \in SUBSET {<<"w", "a", "t", "_", "0", "0", "_", "b", "a", "s", "e">>,
                               <<"w", "a", "t", "_", "0", "0", "_", "c", "o", "m", "p", "a", "c", "t", "e", "d">>,
                               <<"w", "a", "t", "_", "0", "1", "_", "c", "o", "m", "p", "a", "c", "t", "e", "d">>,
                               <<"e", "l", "k", "_", "0", "1">>,
                               <<"e", "l", "k", "_", "0", "1", "_", "b", "a", "s", "e">>} :
                    Cardinality(S) <= MaxDbTables} :
           system_columns \in
               [T -> {c \in UNION {[{COL_NAME_H3INDEX} \cup S -> {"UInt64", "UInt8", "Float32"}] :
                                      S \in SUBSET {STR_V, <<"w">>, COL_NAME_H3INDEX \o <<"_", "w">>}} :
                         \A n \in DOMAIN c :
                             /\ (c[n] = "UInt64") = (n = COL_NAME_H3INDEX)
                             /\ n \in {<<"w">>, COL_NAME_H3INDEX \o <<"_", "w">>} => c[n] = "UInt8"}]
    /\ listed = None
    /\ OthersIdle("listing")

SpecListing == InitListing /\ [][ListTablesets]_vars

\* The builder after CompactedTableSchemaBuilder::new and any of its
\* setters: new sets use_compaction and has_base_suffix and inserts the
\* h3index column; add_column inserts a, t and d, or replaces h3index;
\* use_compacted_resolutions sets the flag of the builder.
InitSchema ==
    /\ builder \in
        {Some([schema |-> [name |-> nc[1],
                           table_engine |-> engine,
                           compression_method |-> nc[2],
                           h3_base_resolutions |-> h3res,
                           use_compaction |-> TRUE,
                           temporal_partitioning |-> tp,
                           columns |-> columns,
                           partition_by_columns |-> partition_by,
                           has_base_suffix |-> TRUE],
               use_compaction |-> use_compaction]) :
            nc \in {<<<<"a", "b">>, [kind |-> <<"Z", "S", "T", "D">>, level |-> 3]>>,
                    <<<<"4", "b">>, [kind |-> <<"Z", "S", "T", "D">>, level |-> 3]>>,
                    <<<<"a", "b">>, [kind |-> <<"L", "Z", "4", "H", "C">>, level |-> 13]>>},
            engine \in {[kind |-> <<"R", "e", "p", "l", "a", "c", "i", "n", "g", "M", "e", "r", "g", "e", "T", "r", "e", "e">>, columns |-> <<>>],
                        [kind |-> <<"S", "u", "m", "m", "i", "n", "g", "M", "e", "r", "g", "e", "T", "r", "e", "e">>, columns |-> <<<<"a">>>>]},
            h3res \in UNION {[1..n -> {0, 1, 16}] : n \in 0..MaxBaseResolutions},
            tp \in {"Year", "Month"},
            columns \in
                {c \in UNION {[{COL_NAME_H3INDEX} \cup N ->
                                  {H3Index, ColumnDefinition("Simple", <<"U", "I", "n", "t", "6", "4">>, FALSE, Some(0)),
                                   ColumnDefinition("Simple", <<"D", "a", "t", "e">>, TRUE, None)}
                                  \cup {ColumnDefinition("Simple", <<"F", "l", "o", "a", "t", "3", "2">>, FALSE, p) : p \in {None, Some(0), Some(1)}}
                                  \cup {ColumnDefinition("Simple", <<"D", "a", "t", "e", "T", "i", "m", "e">>, TRUE, p) : p \in {None, Some(0), Some(1)}}] :
                              N \in SUBSET {<<"a">>, <<"t">>, <<"d">>}} :
                    \A n \in DOMAIN c :
                        /\ n = COL_NAME_H3INDEX => c[n].datatype.sqltype = <<"U", "I", "n", "t", "6", "4">>
                        /\ n = <<"a">> => c[n].datatype.sqltype = <<"F", "l", "o", "a", "t", "3", "2">>
                        /\ n = <<"t">> => c[n].datatype.sqltype = <<"D", "a", "t", "e", "T", "i", "m", "e">>
                        /\ n = <<"d">> => c[n].datatype.sqltype = <<"D", "a", "t", "e">>},
            partition_by \in {<<>>, <<<<"t">>>>},
            use_compaction \in BOOLEAN}
    /\ built = None
    /\ statements = None
    /\ OthersIdle("schema")

SpecSchema == InitSchema /\ [][Build \/ CreateStatements]_vars

\* The window of create_window over up to MaxWindows window indexes, the
\* distinct cells of one resolution in any order (they come out of a
\* HashSet); the target resolution is the finest one. The tableset has base
\* tables at the two finest resolutions and compacted tables at the
\* resolutions above, or one base table, or no table at all.
InitWindow ==
    /\ sliding_h3_window \in
        {Some([window_indexes |-> window_indexes, iter_pos |-> 0,
               target_h3_resolution |-> MaxRes, window_polygon |-> window_polygon]) :
            window_indexes \in UNION {IterationOrders(S) :
                                         S \in {T \in SUBSET H3Cells :
                                                   /\ Cardinality(T) <= MaxWindows
                                                   /\ \A c, d \in T : Resolution(c) = Resolution(d) /\ Resolution(c) >= 1}},
            window_polygon \in {CellsAt(MaxRes), CellsAt(MaxRes) \ {4}}}
    /\ window_tableset \in {TableSetOf({MaxRes - 1, MaxRes}, H3_MIN_RESOLUTION..(MaxRes - 1), TRUE, EmptyMap),
                            TableSetOf({MaxRes}, {}, TRUE, EmptyMap),
                            TableSetOf({}, {}, TRUE, EmptyMap)}
    /\ window_rows \in SUBSET {<<FALSE, 2>>, <<FALSE, 4>>, <<TRUE, 2>>}
    /\ calls = <<>>
    /\ OthersIdle("window")

SpecWindow == InitWindow /\ [][NextWindow \/ FetchNextWindow]_vars

\* An AwaitableResultSet after new, and a ResultSet made from one or from
\* column data; the query of an AwaitableResultSet comes to a ColumnSet or
\* fails.
InitResultSet ==
    /\ awaitable \in {Some([handle |-> Some(task)]) :
                         task \in {Ok([v |-> <<10>>]), Ok([v |-> <<10, 20>>]), Err("ClickhouseError", <<>>)}}
    /\ resultset \in
        {Some([column_data |-> [side |-> "Right", val |-> Some([handle |-> Some(task)])], query_duration |-> None]) :
            task \in {Ok([v |-> <<10>>]), Ok([v |-> <<10, 20>>]), Err("ClickhouseError", <<>>)}}
          \cup {Some([column_data |-> [side |-> "Left", val |-> Some(column_data)], query_duration |-> None]) :
                   column_data \in {[v |-> <<10>>], [v |-> <<10, 20>>]}}
    /\ returns = <<>>
    /\ OthersIdle("resultset")

SpecResultSet == InitResultSet /\ [][WaitUntilFinished \/ GetColumnset \/ GetQueryDurationSecs]_vars

\* The environment of the process: each of the two variables is not set, or
\* set to a number, to a number out of the range of u8, or to other text.
InitEnvironment ==
    /\ environment \in [{ENV_NAME_CELLWALK_NUM_CLICKHOUSE_THREADS, ENV_NAME_CELLWALK_NUM_CONCURRENT_PRELOAD_QUERIES} ->
                            {None} \cup {Some(s) : s \in {<<>>, <<"0">>, <<"1">>, <<"2">>, <<"7">>, <<"0", "0", "7">>, <<"+", "4">>, <<"2", "5", "5">>, <<"2", "5", "6">>,
                                                          <<"-", "1">>, <<"+">>, <<" ", "3">>, <<"3", "x">>, <<"m", "a", "n", "y">>}}]
    /\ knob = None
    /\ OthersIdle("environment")

SpecEnvironment == InitEnvironment /\ [][CellwalkNumClickhouseThreads \/ CellwalkNumConcurrentQueries]_vars

\* The schema of a compacted table with the columns h3index and a, and a
\* ColumnSet of up to MaxSaveRows rows with the h3index column and any of
\* the columns a and x, each with the datatype of the schema or another.
InitSave ==
    /\ save_schema \in
           {Some([name |-> <<"a", "b", "c">>,
                  table_engine |-> [kind |-> <<"R", "e", "p", "l", "a", "c", "i", "n", "g", "M", "e", "r", "g", "e", "T", "r", "e", "e">>, columns |-> <<>>],
                  compression_method |-> [kind |-> <<"Z", "S", "T", "D">>, level |-> 3],
                  h3_base_resolutions |-> h3res,
                  use_compaction |-> TRUE,
                  temporal_partitioning |-> "Month",
                  columns |-> [n \in {COL_NAME_H3INDEX, <<"a">>} |->
                                  IF n = COL_NAME_H3INDEX THEN H3Index
                                  ELSE ColumnDefinition("Simple", <<"F", "l", "o", "a", "t", "3", "2">>, FALSE, None)],
                  partition_by_columns |-> <<>>,
                  has_base_suffix |-> has_base_suffix]) :
               <<h3res, has_base_suffix>> \in {<<<<1>>, TRUE>>, <<<<2>>, FALSE>>, <<<<0, 1>>, TRUE>>}}
    /\ to_save \in
           UNION {{Some([columns |->
                            [n \in {COL_NAME_H3INDEX} \cup N |->
                                IF n = COL_NAME_H3INDEX
                                THEN [datatype |-> [sqltype |-> h3index_type, temporal |-> FALSE], values |-> h3indexes]
                                ELSE IF n = <<"a">>
                                THEN [datatype |-> [sqltype |-> a_type, temporal |-> FALSE], values |-> a_values]
                                ELSE [datatype |-> [sqltype |-> <<"U", "I", "n", "t", "8">>, temporal |-> FALSE],
                                      values |-> [i \in 1..len |-> 10]]]]) :
                      N \in SUBSET {<<"a">>, <<"x">>},
                      h3index_type \in {<<"U", "I", "n", "t", "6", "4">>, <<"U", "I", "n", "t", "8">>},
                      a_type \in {<<"F", "l", "o", "a", "t", "3", "2">>, <<"U", "I", "n", "t", "8">>},
                      h3indexes \in [1..len -> H3Cells],
                      a_values \in [1..len -> {10, 20}]} :
                  len \in 0..MaxSaveRows}
    /\ executed = <<>>
    /\ saved = None
    /\ OthersIdle("save")

SpecSave == InitSave /\ [][SaveColumnset]_vars

InitCodec == CodecInit /\ DiscoveryIdle /\ PlannerIdle /\ UncompactIdle /\ OthersIdle("store")

SpecCodec == InitCodec /\ [][EmitName \/ ParseName]_vars

InitDiscovery == DiscoveryInit /\ CodecIdle /\ PlannerIdle /\ UncompactIdle /\ OthersIdle("store")

SpecDiscovery == InitDiscovery /\ [][Discover]_vars

InitPlanner == PlannerInit /\ CodecIdle /\ DiscoveryIdle /\ UncompactIdle /\ OthersIdle("store")

SpecPlanner == InitPlanner /\ [][BuildQuery]_vars

InitUncompact == UncompactInit /\ CodecIdle /\ DiscoveryIdle /\ PlannerIdle /\ OthersIdle("store")

SpecUncompact == InitUncompact /\ [][QueryAllWithUncompacting]_vars

\* ------------------------------------------------------------------------
\* Name codec: properties

\* an underscore followed by two digits occurs in s
HasResolutionPattern(s) == \E i \in 1..(Len(s) - 2) : s[i] = "_" /\ s[i + 1] \in Digits /\ s[i + 2] \in Digits

C2_EmittedName ==
    (origin = "table" /\ codec_pc # "new") =>
        LET n == Len(table.basename)
            sfx == IF ~table.spec.has_base_suffix THEN <<>>
                   ELSE IF table.spec.is_compacted THEN STR_COMPACTED ELSE STR_BASE
            rest == Drop(full_table_name, n + 3 + Len(sfx))
        IN /\ Len(full_table_name) >= n + 3 + Len(sfx)
           /\ SubSeq(full_table_name, 1, n) = table.basename
           /\ full_table_name[n + 1] = "_"
           /\ full_table_name[n + 2] = DigitChar(table.spec.h3_resolution \div 10)
           /\ full_table_name[n + 3] = DigitChar(table.spec.h3_resolution % 10)
           /\ SubSeq(full_table_name, n + 4, n + 3 + Len(sfx)) = sfx
           /\ (table.spec.temporary_key.some => rest = STR_TMP \o table.spec.temporary_key.val)
           /\ (~table.spec.temporary_key.some => rest = <<>>)

C2_Witness ==
    /\ origin = "table"
    /\ codec_pc = "named"
    /\ table.spec.h3_resolution = 5
    /\ table.spec.has_base_suffix
    /\ ~table.spec.is_compacted
    /\ table.spec.temporary_key = Some(<<"7", "k">>)
    /\ full_table_name = <<"a", "b", "_", "0", "5">> \o STR_BASE \o STR_TMP \o <<"7", "k">>

\* group 1 of the specified grammar, ([A-Za-z][A-Za-z0-9_]+)
GrammarGroup1(g) == Len(g) >= 2 /\ g[1] \in Letters /\ AllIn(Drop(g, 1), WordChars)

\* the Table the specified grammar yields for a name, None without a match
GrammarParse(s) == TableOfCaptures(RegexCaptures(s, {n \in 1..Len(s) : GrammarGroup1(SubSeq(s, 1, n))}))

\* C3: Table::parse returns a Table exactly when the name matches
\* ^([A-Za-z][A-Za-z0-9_]+)_([0-9]{2})(_(base|compacted))?(_tmp([A-Za-z0-9_]+))?$,
\* with the fields taken from the groups, and none otherwise.
C3_ParseFollowsGrammar ==
    codec_pc = "parsed" => parsed = GrammarParse(full_table_name)

\* ------------------------------------------------------------------------
\* Tableset discovery: properties

\* the parseable, non-temporary tables of the listing, with their positions
ListedTables == {[pos |-> i, table |-> Parse(tablenames[i]).val] :
                    i \in {j \in 1..Len(tablenames) : Parse(tablenames[j]).some /\ ~is_temporary(Parse(tablenames[j]).val.spec)}}

\* the last listed table of the basename, resolution and kind of lt
LastLike(lt) ==
    CHOOSE x \in ListedTables :
        /\ x.table.basename = lt.table.basename
        /\ x.table.spec.h3_resolution = lt.table.spec.h3_resolution
        /\ x.table.spec.is_compacted = lt.table.spec.is_compacted
        /\ \A y \in ListedTables :
              (/\ y.table.basename = lt.table.basename
               /\ y.table.spec.h3_resolution = lt.table.spec.h3_resolution
               /\ y.table.spec.is_compacted = lt.table.spec.is_compacted) => y.pos <= x.pos

\* C4: find_tablesets returns exactly one TableSet per basename with a
\* parseable, non-temporary name in the input; each such table is in
\* compacted_tables (if is_compacted) or base_tables (otherwise) under its
\* resolution, and nothing else is: unparseable names and temporary tables
\* contribute nothing. (Of several listed tables of one basename, resolution
\* and kind, the entry is the last one's spec.)
C4_Discovery ==
    discovery_pc = "found" =>
        /\ DOMAIN tablesets = {lt.table.basename : lt \in ListedTables}
        /\ \A b \in DOMAIN tablesets :
              /\ DOMAIN tablesets[b].base_tables =
                    {lt.table.spec.h3_resolution : lt \in {x \in ListedTables : x.table.basename = b /\ ~x.table.spec.is_compacted}}
              /\ DOMAIN tablesets[b].compacted_tables =
                    {lt.table.spec.h3_resolution : lt \in {x \in ListedTables : x.table.basename = b /\ x.table.spec.is_compacted}}
        /\ \A lt \in ListedTables :
              LET ts == tablesets[lt.table.basename]
                  m == IF lt.table.spec.is_compacted THEN ts.compacted_tables ELSE ts.base_tables
              IN m[lt.table.spec.h3_resolution] = LastLike(lt).table.spec

C4_Witness ==
    /\ discovery_pc = "found"
    /\ Len(tablenames) = 3
    /\ \E i \in 1..3 : ~Parse(tablenames[i]).some
    /\ \E i \in 1..3 : Parse(tablenames[i]).some /\ is_temporary(Parse(tablenames[i]).val.spec)
    /\ Cardinality(DOMAIN tablesets) = 1
    /\ \E b \in DOMAIN tablesets : DOMAIN tablesets[b].compacted_tables = {1} /\ DOMAIN tablesets[b].base_tables = {}

\* C22: every TableSet find_tablesets returns owns at least one table; each
\* entry (r, spec) of base_tables has spec.h3_resolution = r, is not
\* compacted and has no temporary key; each entry (r, spec) of
\* compacted_tables has spec.h3_resolution = r, is compacted and has no
\* temporary key; and the tableset is filed under its basename.
C22_TableSetsWellFormed ==
    discovery_pc = "found" =>
        \A key \in DOMAIN tablesets :
            /\ tablesets[key].basename = key
            /\ DOMAIN tablesets[key].base_tables \cup DOMAIN tablesets[key].compacted_tables # {}
            /\ \A r \in DOMAIN tablesets[key].base_tables :
                  /\ tablesets[key].base_tables[r].h3_resolution = r
                  /\ ~tablesets[key].base_tables[r].is_compacted
                  /\ tablesets[key].base_tables[r].temporary_key = None
            /\ \A r \in DOMAIN tablesets[key].compacted_tables :
                  /\ tablesets[key].compacted_tables[r].h3_resolution = r
                  /\ tablesets[key].compacted_tables[r].is_compacted
                  /\ tablesets[key].compacted_tables[r].temporary_key = None

\* two tablesets were found, one with a base and a compacted table, next to
\* a temporary table that was listed
C22_Witness ==
    /\ discovery_pc = "found"
    /\ \E i \in DOMAIN tablenames : Parse(tablenames[i]).some /\ is_temporary(Parse(tablenames[i]).val.spec)
    /\ \E key \in DOMAIN tablesets :
          DOMAIN tablesets[key].base_tables # {} /\ DOMAIN tablesets[key].compacted_tables # {}


\* ------------------------------------------------------------------------
\* Query planner: properties

\* the pieces of s from one of the positions ps of a separator of length n to the next
PiecesBetween(s, n, ps) ==
    [k \in 1..(Len(ps) + 1) |->
        SubSeq(s, IF k = 1 THEN 1 ELSE ps[k - 1] + n, IF k > Len(ps) THEN Len(s) ELSE ps[k] - 1)]

\* the pieces of s between the occurrences of sep (which do not overlap)
Split(s, sep) ==
    PiecesBetween(s, Len(sep), Ascending({i \in 1..(Len(s) - Len(sep) + 1) : SubSeq(s, i, i + Len(sep) - 1) = sep}))

\* the sub-queries of the planned query string
PlanParts == Split(plan.val, STR_UNION_ALL)

\* the resolution of the query cells
PlanResolution == Resolution(cells[1])

\* the sub-query reads from the table of this name
NamesTable(part, name) == Contains(part, STR_FROM \o name \o <<" ">>)

\* the resolutions up to R whose required table exists: the base table at
\* R, the compacted table below R
ResolutionsWithRequiredTable ==
    Ascending({r \in H3_MIN_RESOLUTION..PlanResolution :
                  IF r = PlanResolution THEN r \in DOMAIN tableset.base_tables ELSE r \in DOMAIN tableset.compacted_tables})

\* the name of the table required at resolution r, a table of the tableset
RequiredTableName(r) ==
    ToTableName(Table(tableset.basename,
                      IF r = PlanResolution THEN tableset.base_tables[r] ELSE tableset.compacted_tables[r]))

\* C5: every sub-query of build_select_query names a table of the tableset:
\* the base table at r for r = R, the compacted table at r for r < R; a
\* resolution whose required table does not exist gets no sub-query.
C5_SubQueriesNameExistingTables ==
    (planner_pc = "planned" /\ plan.ok) =>
        LET parts == PlanParts
            rs == ResolutionsWithRequiredTable
        IN /\ Len(parts) = Len(rs)
           /\ \A k \in 1..Len(parts) : k <= Len(rs) => NamesTable(parts[k], RequiredTableName(rs[k]))

\* the greatest of a set of positions, 0 if there is none
LastOf(positions) == IF positions = {} THEN 0 ELSE CHOOSE i \in positions : \A j \in positions : j <= i

\* the last position at which s holds the character c, 0 if none
LastIndexOf(s, c) == LastOf({i \in 1..Len(s) : s[i] = c})

\* the sub-query ends with " in " and a bracketed list of the texts items
EndsWithListOf(part, open, items) ==
    /\ open > Len(STR_IN)
    /\ part[Len(part)] = "]"
    /\ SubSeq(part, open - Len(STR_IN), open - 1) = STR_IN
    /\ SubSeq(part, open + 1, Len(part) - 1) = Join(items, <<",">>)

\* the sub-query ends with a bracketed, comma-joined list of decimal numbers:
\* each element of the set parents once, and nothing else
EndsWithListOfParents(part, items, parents) ==
    /\ EndsWithListOf(part, LastIndexOf(part, "["), items)
    /\ \A i \in 1..Len(items) : items[i] # <<>> /\ AllIn(items[i], Digits)
    /\ {ParseDecimal(items[i]) : i \in 1..Len(items)} = parents
    /\ Len(items) = Cardinality(parents)

\* the texts between the commas of the list the sub-query ends with
InListItems(part) == Split(SubSeq(part, LastIndexOf(part, "[") + 1, Len(part) - 1), <<",">>)

\* the resolutions up to R at which the tableset has a base or compacted table
ResolutionsWithTable ==
    Ascending({r \in H3_MIN_RESOLUTION..PlanResolution :
                  r \in DOMAIN tableset.base_tables \/ r \in DOMAIN tableset.compacted_tables})

\* C6: for non-empty cells of one resolution R (and a valid query, and a
\* table at some r <= R) build_select_query returns sub-queries joined by
\* " union all ", one per resolution r <= R with a base or compacted table,
\* in ascending order of r; the sub-query at r ends with the list of the
\* parents at r of the cells, each once, in brackets and joined by commas.
C6_UnionOfSubQueries ==
    (/\ planner_pc = "planned"
     /\ cells # <<>>
     /\ \A i \in 1..Len(cells) : Resolution(cells[i]) = PlanResolution
     /\ validation.ok
     /\ ResolutionsWithTable # <<>>)
    => /\ plan.ok
       /\ LET parts == PlanParts
              rs == ResolutionsWithTable
          IN /\ Len(parts) = Len(rs)
             /\ \A k \in 1..Len(parts) :
                   EndsWithListOfParents(parts[k], InListItems(parts[k]), {GetParent(cells[i], rs[k]) : i \in 1..Len(cells)})

C6_Witness ==
    /\ planner_pc = "planned"
    /\ plan.ok
    /\ query = AutoGenerated
    /\ cells = <<5, 4>>
    /\ DOMAIN tableset.base_tables = {0, 2}
    /\ DOMAIN tableset.compacted_tables = {0}
    /\ Len(PlanParts) = 2
    /\ InListItems(PlanParts[1]) = <<<<"1">>>>
    /\ InListItems(PlanParts[2]) = <<<<"4">>, <<"5">>>>

\* C9 as stated: build_select_query fails with EmptyCells when the cell slice
\* is empty, with MixedH3Resolutions when a cell's resolution differs from
\* the first cell's, and with NoQueryableTables when the tableset has no
\* table at any resolution <= R.
C9_ErrorsAsStated ==
    planner_pc = "planned" =>
        /\ cells = <<>> => plan = Err("EmptyCells", <<>>)
        /\ (cells # <<>> /\ \E i \in 1..Len(cells) : Resolution(cells[i]) # PlanResolution)
              => plan = Err("MixedH3Resolutions", <<>>)
        /\ (cells # <<>> /\ ResolutionsWithTable = <<>>) => plan = Err("NoQueryableTables", <<>>)

\* C9 as amended: with a query that passes validate, build_select_query fails
\* with EmptyCells when the cell slice is empty; otherwise with
\* MixedH3Resolutions when a cell's resolution differs from the first cell's;
\* otherwise with NoQueryableTables when the tableset has no table at any
\* resolution <= R.
C9_ErrorsInOrder ==
    (planner_pc = "planned" /\ validation.ok) =>
        /\ cells = <<>> => plan = Err("EmptyCells", <<>>)
        /\ (cells # <<>> /\ \E i \in 1..Len(cells) : Resolution(cells[i]) # PlanResolution)
              => plan = Err("MixedH3Resolutions", <<>>)
        /\ (/\ cells # <<>>
            /\ \A i \in 1..Len(cells) : Resolution(cells[i]) = PlanResolution
            /\ ResolutionsWithTable = <<>>) => plan = Err("NoQueryableTables", <<>>)

C9_Witness ==
    /\ planner_pc = "planned"
    /\ validation.ok
    /\ query.kind = "TemplatedSelect"
    /\ cells = <<3, 1>>
    /\ DOMAIN tableset.base_tables = {2}
    /\ DOMAIN tableset.compacted_tables = {}
    /\ plan = Err("MixedH3Resolutions", <<>>)

\* C10: validate accepts AutoGenerated, and a TemplatedSelect exactly when it
\* contains both "<[table]>" and "<[h3indexes]>"; otherwise it fails with
\* MissingQueryPlaceholder of the missing placeholder, of "<[table]>" when
\* both are missing; build_select_query returns that failure whatever the
\* cells are.
C10_ValidateFirst ==
    planner_pc = "planned" =>
        /\ query.kind = "AutoGenerated" => validation.ok
        /\ query.kind = "TemplatedSelect" =>
              /\ validation.ok <=> (/\ Contains(query.querystring, STR_PLACEHOLDER_TABLE)
                                    /\ Contains(query.querystring, STR_PLACEHOLDER_H3INDEXES))
              /\ ~Contains(query.querystring, STR_PLACEHOLDER_TABLE)
                    => validation = Err("MissingQueryPlaceholder", STR_PLACEHOLDER_TABLE)
              /\ (/\ Contains(query.querystring, STR_PLACEHOLDER_TABLE)
                  /\ ~Contains(query.querystring, STR_PLACEHOLDER_H3INDEXES))
                    => validation = Err("MissingQueryPlaceholder", STR_PLACEHOLDER_H3INDEXES)
        /\ ~validation.ok => plan = validation

C10_Witness ==
    /\ planner_pc = "planned"
    /\ query.kind = "TemplatedSelect"
    /\ ~Contains(query.querystring, STR_PLACEHOLDER_TABLE)
    /\ ~Contains(query.querystring, STR_PLACEHOLDER_H3INDEXES)
    /\ cells = <<>>
    /\ plan = Err("MissingQueryPlaceholder", STR_PLACEHOLDER_TABLE)

\* C11: with a valid template, a query string that build_select_query
\* returns contains neither "<[table]>" nor "<[h3indexes]>".
C11_NoPlaceholderLeft ==
    (planner_pc = "planned" /\ query.kind = "TemplatedSelect" /\ plan.ok) =>
        /\ ~Contains(plan.val, STR_PLACEHOLDER_TABLE)
        /\ ~Contains(plan.val, STR_PLACEHOLDER_H3INDEXES)

C11_Witness ==
    /\ planner_pc = "planned"
    /\ query.kind = "TemplatedSelect"
    /\ query.querystring \in RepeatingTemplates
    /\ HasPrefix(query.querystring, STR_PLACEHOLDER_TABLE \o STR_PLACEHOLDER_TABLE)
    /\ plan.ok
    /\ Len(PlanParts) = 3
    /\ cells = <<6, 7>>

\* ------------------------------------------------------------------------
\* list_tablesets: properties

\* column n has type t in every member table of the tableset
InEveryMemberTable(ts, n, t) ==
    \A m \in tables(ts) :
        /\ ToTableName(m) \in DOMAIN system_columns
        /\ n \in DOMAIN system_columns[ToTableName(m)]
        /\ system_columns[ToTableName(m)][n] = t

ColumnNames == UNION {DOMAIN system_columns[t] : t \in DOMAIN system_columns}

\* C12, as stated: list_tablesets retains a column (name, type) in
\* TableSet.columns if and only if it has that type in every member table.
C12_RetainedIffInEveryTable ==
    listed.some =>
        \A b \in DOMAIN listed.val : \A n \in ColumnNames \cup DOMAIN listed.val[b].columns : \A t \in {"UInt64", "UInt8", "Float32"} :
            (n \in DOMAIN listed.val[b].columns /\ listed.val[b].columns[n] = t)
                <=> InEveryMemberTable(listed.val[b], n, t)

\* C12, amended: list_tablesets retains a column (name, type) if and only if
\* its name does not start with "h3index" and it has that type in every
\* member table; a column missing from a member table or of another type in
\* one is dropped, and so is every column whose name starts with "h3index".
C12_RetainedIffInEveryTableAndNotH3index ==
    listed.some =>
        \A b \in DOMAIN listed.val : \A n \in ColumnNames \cup DOMAIN listed.val[b].columns : \A t \in {"UInt64", "UInt8", "Float32"} :
            (n \in DOMAIN listed.val[b].columns /\ listed.val[b].columns[n] = t)
                <=> (~HasPrefix(n, COL_NAME_H3INDEX) /\ InEveryMemberTable(listed.val[b], n, t))

\* a tableset of three tables: v is UInt8 in all of them and retained, w is
\* missing from one, or of another type in one, and dropped
C12_Witness ==
    /\ listed.some
    /\ \E b \in DOMAIN listed.val :
        /\ num_tables(listed.val[b]) = 3
        /\ DOMAIN listed.val[b].columns = {STR_V}
        /\ listed.val[b].columns[STR_V] = "UInt8"
        /\ \E m \in DOMAIN system_columns : <<"w">> \in DOMAIN system_columns[m]
        /\ \E m \in DOMAIN system_columns : COL_NAME_H3INDEX \o <<"_", "w">> \in DOMAIN system_columns[m]

\* ------------------------------------------------------------------------
\* Schema and DDL compiler: properties

\* the table a statement creates: what stands between
\* "\nCREATE TABLE IF NOT EXISTS " and the first " ("
TargetTable(statement) ==
    SubSeq(statement, 29,
           (CHOOSE i \in 29..Len(statement) :
               /\ SubSeq(statement, i, i + 1) = <<" ", "(">>
               /\ \A j \in 29..(i - 1) : SubSeq(statement, j, j + 1) # <<" ", "(">>) - 1)

\* the (resolution, is_compacted) pairs the schema asks for
PairsOf(schema) ==
    {<<schema.h3_base_resolutions[k], FALSE>> : k \in DOMAIN schema.h3_base_resolutions}
        \cup (IF schema.use_compaction
              THEN {<<r, TRUE>> : r \in {q \in 0..15 : \E k \in DOMAIN schema.h3_base_resolutions : q <= schema.h3_base_resolutions[k]}}
              ELSE {})

\* C13: create_statements of a built schema emits exactly one CREATE TABLE
\* IF NOT EXISTS statement per (resolution, is_compacted) pair, the base
\* resolutions as non-compacted tables and 0..=max as compacted ones; no pair
\* is emitted twice and no two statements name the same table.
C13_OneStatementPerPair ==
    (statements.some /\ statements.val.ok) =>
        /\ \A i \in DOMAIN statements.val.val : HasPrefix(statements.val.val[i], <<"\n", "C", "R", "E", "A", "T", "E", " ", "T", "A", "B", "L", "E", " ", "I", "F", " ", "N", "O", "T", " ", "E", "X", "I", "S", "T", "S", " ">>)
        /\ Len(statements.val.val) = Cardinality(PairsOf(built.val.val))
        /\ \A i, j \in DOMAIN statements.val.val : i # j => TargetTable(statements.val.val[i]) # TargetTable(statements.val.val[j])
        /\ {TargetTable(statements.val.val[i]) : i \in DOMAIN statements.val.val}
             = {ToTableName(Table(built.val.val.name, TableSpec(p[1], p[2], None, built.val.val.has_base_suffix))) : p \in PairsOf(built.val.val)}

\* the position a column declares
DeclaredPosition(schema, n) == schema.columns[n].order_key_position.val

\* names is h3index followed by exactly the columns of the schema that
\* declare an order_key_position, sorted by (position, name)
OrderedAsClaimed(schema, names) ==
    /\ Len(names) >= 1
    /\ names[1] = COL_NAME_H3INDEX
    /\ {names[i] : i \in 2..Len(names)} = {n \in DOMAIN schema.columns : schema.columns[n].order_key_position.some}
    /\ \A i, j \in 2..Len(names) : i < j =>
          \/ DeclaredPosition(schema, names[i]) < DeclaredPosition(schema, names[j])
          \/ /\ DeclaredPosition(schema, names[i]) = DeclaredPosition(schema, names[j])
             /\ StrLess(names[i], names[j])

\* C14: for a built schema, order_by_column_names returns the h3index column
\* first, followed by exactly the columns that declare an order_key_position,
\* sorted by (position, name), whatever key positions the other columns
\* have; it is what the statements order by.
C14_OrderByH3indexFirst ==
    (built.some /\ built.val.ok) =>
        \A iter \in IterationOrders(DOMAIN built.val.val.columns) :
            /\ OrderedAsClaimed(built.val.val, order_by_column_names(built.val.val, iter))
            /\ (statements.some /\ statements.val.ok) =>
                  \A i \in DOMAIN statements.val.val :
                      Contains(statements.val.val[i],
                               <<"\n", "O", "R", "D", "E", "R", " ", "B", "Y", " ", "(">> \o Join(order_by_column_names(built.val.val, iter), <<",", " ">>) \o <<")", ";", "\n">>)

\* columns a (position 0) and t (position 0) tie and go by name behind
\* h3index, although a sorts before h3index by name
C14_Witness ==
    /\ statements.some
    /\ statements.val.ok
    /\ \A n \in {<<"a">>, <<"t">>} :
          /\ n \in DOMAIN built.val.val.columns
          /\ built.val.val.columns[n].order_key_position = Some(0)
    /\ <<"d">> \in DOMAIN built.val.val.columns
    /\ Contains(statements.val.val[1], <<"\n", "O", "R", "D", "E", "R", " ", "B", "Y", " ", "(", "h", "3", "i", "n", "d", "e", "x", ",", " ", "a", ",", " ", "t", ")", ";", "\n">>)

\* C15: for a fixed schema, create_statements returns the same list of
\* strings whatever the iteration order of the column hash map is.
C15_DdlDeterministic ==
    (statements.some /\ built.some /\ built.val.ok) =>
        \A iter \in IterationOrders(DOMAIN built.val.val.columns) :
            create_statements(built.val.val, iter) = statements.val

\* four columns, partitioned by the temporal column t, and four statements
C15_Witness ==
    /\ statements.some
    /\ statements.val.ok
    /\ Cardinality(DOMAIN built.val.val.columns) = 4
    /\ Len(statements.val.val) = 4
    /\ Contains(statements.val.val[1], <<"P", "A", "R", "T", "I", "T", "I", "O", "N", " ", "B", "Y", " ", "(", "h", "3", "G", "e", "t", "B", "a", "s", "e", "C", "e", "l", "l", "(", "h", "3", "i", "n", "d", "e", "x", ")", ",", " ", "t", "o", "S", "t", "r", "i", "n", "g", "(", "t", "o", "M", "o", "n", "t", "h", "(", "t", ")", ")", ")">>)
    /\ Contains(statements.val.val[1], <<" ", "a", " ", "F", "l", "o", "a", "t", "3", "2", " ", "C", "O", "D", "E", "C", "(", "Z", "S", "T", "D", "(", "3", ")", ")", ",", "\n", " ", "d", " ", "D", "a", "t", "e", " ", "C", "O", "D", "E", "C", "(", "Z", "S", "T", "D", "(", "3", ")", ")", ",", "\n", " ", "h", "3", "i", "n", "d", "e", "x", " ", "U", "I", "n", "t", "6", "4", " ", "C", "O", "D", "E", "C", "(", "Z", "S", "T", "D", "(", "3", ")", ")", ",", "\n", " ", "t", " ", "D", "a", "t", "e", "T", "i", "m", "e", " ", "C", "O", "D", "E", "C", "(", "Z", "S", "T", "D", "(", "3", ")", ")", "\n">>)

\* C16: build returns a schema only if it has an h3index column of exactly
\* the H3Index definition, a non-empty h3_base_resolutions with every value
\* in 0..15, sorted ascending and without duplicates, and, for
\* SummingMergeTree, every sum column among its columns; otherwise it
\* returns SchemaValidationError.
C16_BuiltSchemaIsValid ==
    built.some =>
        IF built.val.ok
        THEN /\ built.val.val = builder.val.schema
             /\ COL_NAME_H3INDEX \in DOMAIN built.val.val.columns
             /\ built.val.val.columns[COL_NAME_H3INDEX] = H3Index
             /\ built.val.val.h3_base_resolutions # <<>>
             /\ \A k \in DOMAIN built.val.val.h3_base_resolutions : built.val.val.h3_base_resolutions[k] \in 0..15
             /\ \A k, l \in DOMAIN built.val.val.h3_base_resolutions :
                    k < l => built.val.val.h3_base_resolutions[k] < built.val.val.h3_base_resolutions[l]
             /\ built.val.val.table_engine.kind = <<"S", "u", "m", "m", "i", "n", "g", "M", "e", "r", "g", "e", "T", "r", "e", "e">> =>
                    \A k \in DOMAIN built.val.val.table_engine.columns :
                        built.val.val.table_engine.columns[k] \in DOMAIN built.val.val.columns
        ELSE built.val.kind = "SchemaValidationError"

\* the temporal columns of a schema
TemporalColumns(schema) == {n \in DOMAIN schema.columns : schema.columns[n].datatype.temporal}

\* C23: whenever partition_by_expressions returns a list, its first element
\* is h3GetBaseCell(h3index). With no partition_by_columns and a proper
\* h3index column: one temporal column adds toString(toYear(col)) or
\* toString(toMonth(col)), as temporal_partitioning says; no temporal column
\* adds nothing; more than one temporal column fails with
\* SchemaValidationError. For every iteration order of the columns.
C23_PartitionByExpressions ==
    builder.some =>
        \A iter \in IterationOrders(DOMAIN builder.val.schema.columns) :
          \A returned \in {partition_by_expressions(builder.val.schema, iter)} :
              /\ returned.ok
                  => returned.val[1] = <<"h", "3", "G", "e", "t", "B", "a", "s", "e", "C", "e", "l", "l", "(", "h", "3", "i", "n", "d", "e", "x", ")">>
              /\ (h3index_column(builder.val.schema).ok /\ builder.val.schema.partition_by_columns = <<>>)
                  => IF TemporalColumns(builder.val.schema) = {}
                     THEN returned = Ok(<<<<"h", "3", "G", "e", "t", "B", "a", "s", "e", "C", "e", "l", "l", "(", "h", "3", "i", "n", "d", "e", "x", ")">>>>)
                     ELSE IF Cardinality(TemporalColumns(builder.val.schema)) = 1
                     THEN \E col \in TemporalColumns(builder.val.schema) :
                             returned =
                                 Ok(<<<<"h", "3", "G", "e", "t", "B", "a", "s", "e", "C", "e", "l", "l", "(", "h", "3", "i", "n", "d", "e", "x", ")">>,
                                      (IF builder.val.schema.temporal_partitioning = "Year"
                                       THEN <<"t", "o", "S", "t", "r", "i", "n", "g", "(", "t", "o", "Y", "e", "a", "r", "(">> ELSE <<"t", "o", "S", "t", "r", "i", "n", "g", "(", "t", "o", "M", "o", "n", "t", "h", "(">>) \o col \o <<")", ")">>>>)
                     ELSE ~returned.ok /\ returned.kind = "SchemaValidationError"

\* build refused a schema with two temporal columns and no
\* partition_by_columns
C23_Witness ==
    /\ builder.some
    /\ builder.val.schema.partition_by_columns = <<>>
    /\ TemporalColumns(builder.val.schema) = {<<"t">>, <<"d">>}
    /\ builder.val.schema.temporal_partitioning = "Year"
    /\ built.some
    /\ ~built.val.ok
    /\ built.val.arg = <<"m", "u", "l", "t", "i", "p", "l", "e", " ", "t", "e", "m", "p", "o", "r", "a", "l", " ", "c", "o", "l", "u", "m", "n", "s">>


\* the names of the tables the statements create, in the order of the
\* statements
CreatedTableNames == [i \in DOMAIN statements.val.val |-> TargetTable(statements.val.val[i])]

\* C26: for a schema that build accepted, every table name of
\* create_statements is parsed by Table::parse into a Table with the
\* schema's name as basename and the resolution and is_compacted flag it was
\* created for, and find_tablesets over the created names gives exactly one
\* tableset, named after the schema, that contains all created tables.
C26_CreatedTablesAreDiscovered ==
    (statements.some /\ statements.val.ok) =>
        /\ \A i \in DOMAIN CreatedTableNames :
              /\ Parse(CreatedTableNames[i]).some
              /\ Parse(CreatedTableNames[i]).val.basename = built.val.val.name
              /\ <<Parse(CreatedTableNames[i]).val.spec.h3_resolution, Parse(CreatedTableNames[i]).val.spec.is_compacted>>
                    \in PairsOf(built.val.val)
              /\ CreatedTableNames[i] = ToTableName(Parse(CreatedTableNames[i]).val)
        /\ DOMAIN FindTablesets(CreatedTableNames) = {built.val.val.name}
        /\ {<<t.spec.h3_resolution, t.spec.is_compacted>> : t \in tables(FindTablesets(CreatedTableNames)[built.val.val.name])}
              = PairsOf(built.val.val)

\* C27: a schema built after use_compacted_resolutions(false) has
\* use_compaction = false, and its create_statements names the
\* non-compacted tables of the base resolutions only.
C27_UseCompactedResolutionsTakesEffect ==
    (builder.some /\ ~builder.val.use_compaction /\ built.some /\ built.val.ok) =>
        /\ ~built.val.val.use_compaction
        /\ (statements.some /\ statements.val.ok) =>
              {TargetTable(statements.val.val[i]) : i \in DOMAIN statements.val.val}
                 = {ToTableName(Table(built.val.val.name, TableSpec(built.val.val.h3_base_resolutions[k], FALSE, None,
                                                                     built.val.val.has_base_suffix))) :
                       k \in DOMAIN built.val.val.h3_base_resolutions}


\* ------------------------------------------------------------------------
\* Sliding window: properties

\* the position of the cursor before the k-th call
CursorBefore(k) == IF k = 1 THEN 0 ELSE calls[k - 1].iter_pos

\* C17: next_window, called repeatedly, returns every window index of the
\* list once, in the order of the list, and none from then on; every call of
\* it that returns a window index moves the cursor by one, a call that
\* returns none leaves it, and the cursor never exceeds the length of the
\* list.
C17_NextWindowInOrder ==
    sliding_h3_window.some =>
        /\ sliding_h3_window.val.iter_pos \in 0..Len(sliding_h3_window.val.window_indexes)
        /\ sliding_h3_window.val.iter_pos = CursorBefore(Len(calls) + 1)
        /\ \A k \in DOMAIN calls :
              /\ calls[k].iter_pos >= CursorBefore(k)
              /\ calls[k].op = "next_window" =>
                    IF CursorBefore(k) < Len(sliding_h3_window.val.window_indexes)
                    THEN /\ calls[k].result = Some(sliding_h3_window.val.window_indexes[CursorBefore(k) + 1])
                         /\ calls[k].iter_pos = CursorBefore(k) + 1
                    ELSE /\ calls[k].result = None
                         /\ calls[k].iter_pos = CursorBefore(k)
        /\ (\A k \in DOMAIN calls : calls[k].op = "next_window") =>
              \A k \in DOMAIN calls :
                  calls[k].result = IF k <= Len(sliding_h3_window.val.window_indexes)
                                    THEN Some(sliding_h3_window.val.window_indexes[k]) ELSE None

\* three window indexes returned in order, then none twice
C17_Witness ==
    /\ sliding_h3_window.some
    /\ sliding_h3_window.val.window_indexes = <<6, 4, 7>>
    /\ Len(calls) = 5
    /\ \A k \in DOMAIN calls : calls[k].op = "next_window"
    /\ calls[3].result = Some(7)
    /\ calls[4].result = None
    /\ calls[5].result = None
    /\ sliding_h3_window.val.iter_pos = 3

\* the window indexes for which the calls so far returned a result set
Yielded ==
    [i \in 1..Cardinality({k \in DOMAIN calls : calls[k].result.ok /\ calls[k].result.val.some}) |->
        sliding_h3_window.val.window_indexes[
            calls[CHOOSE k \in DOMAIN calls :
                     /\ calls[k].result.ok /\ calls[k].result.val.some
                     /\ Cardinality({l \in 1..k : calls[l].result.ok /\ calls[l].result.val.some}) = i].iter_pos]]

\* the window indexes whose probe returned at least one row: the tableset
\* has data for them, and the database did not fail at their probe
ProbedWithRows ==
    {c \in {sliding_h3_window.val.window_indexes[i] : i \in DOMAIN sliding_h3_window.val.window_indexes} :
        /\ has_data(window_tableset, window_rows, c, FALSE) = Ok(TRUE)
        /\ ~\E k \in DOMAIN calls : ~calls[k].result.ok /\ sliding_h3_window.val.window_indexes[calls[k].iter_pos] = c}

\* C18: fetch_next_window, called repeatedly until it returns none, yields
\* one result set for each window index whose probe returned at least one
\* row, in the order of the window list; a window index whose probe returns
\* no row yields none and does not end the iteration.
C18_OneResultSetPerWindowWithData ==
    (/\ sliding_h3_window.some
     /\ calls # <<>>
     /\ \A k \in DOMAIN calls : calls[k].op = "fetch_next_window"
     /\ calls[Len(calls)].result = Ok(None)) =>
        Yielded = FilterSeq(sliding_h3_window.val.window_indexes, ProbedWithRows)

\* the first window has no data and is skipped, the two behind it yield a
\* result set each, then the driver returns none
C18_Witness ==
    /\ sliding_h3_window.some
    /\ sliding_h3_window.val.window_indexes = <<6, 4, 5>>
    /\ window_rows = {<<TRUE, 2>>}
    /\ Len(calls) = 3
    /\ \A k \in DOMAIN calls : calls[k].op = "fetch_next_window"
    /\ calls[1].result.ok /\ calls[1].result.val.some /\ calls[1].iter_pos = 2
    /\ calls[2].result.ok /\ calls[2].result.val.some /\ calls[2].iter_pos = 3
    /\ calls[3].result = Ok(None)
    /\ Yielded = <<4, 5>>

\* the k-th call returned a window index or a result set
ConsumedAndReturned(k) ==
    IF calls[k].op = "next_window" THEN calls[k].result.some ELSE calls[k].result.ok /\ calls[k].result.val.some

\* C29: when the has_data probe of a window index fails in fetch_next_window,
\* the call returns the error with the cursor already on that window index:
\* the window indexes before it were skipped for having no data, and every
\* later call starts behind it, so none returns it again and the call that
\* follows goes on with the next window index.
C29_FailedProbeConsumesWindow ==
    sliding_h3_window.some =>
        \A k \in DOMAIN calls :
            (calls[k].op = "fetch_next_window" /\ ~calls[k].result.ok) =>
                /\ calls[k].iter_pos > CursorBefore(k)
                /\ calls[k].iter_pos \in DOMAIN sliding_h3_window.val.window_indexes
                /\ ~has_data(window_tableset, window_rows, sliding_h3_window.val.window_indexes[calls[k].iter_pos], TRUE).ok
                /\ calls[k].result = has_data(window_tableset, window_rows,
                                              sliding_h3_window.val.window_indexes[calls[k].iter_pos], TRUE)
                /\ \A i \in (CursorBefore(k) + 1)..(calls[k].iter_pos - 1) :
                      has_data(window_tableset, window_rows, sliding_h3_window.val.window_indexes[i], FALSE) = Ok(FALSE)
                /\ \A j \in (k + 1)..Len(calls) :
                      /\ CursorBefore(j) >= calls[k].iter_pos
                      /\ ConsumedAndReturned(j) => calls[j].iter_pos > calls[k].iter_pos
                /\ (k < Len(calls) /\ calls[k + 1].op = "next_window") =>
                      calls[k + 1].result = IF calls[k].iter_pos < Len(sliding_h3_window.val.window_indexes)
                                            THEN Some(sliding_h3_window.val.window_indexes[calls[k].iter_pos + 1])
                                            ELSE None
                /\ (k < Len(calls) /\ calls[k + 1].op = "fetch_next_window" /\ ConsumedAndReturned(k + 1)) =>
                      /\ has_data(window_tableset, window_rows,
                                  sliding_h3_window.val.window_indexes[calls[k + 1].iter_pos], FALSE) = Ok(TRUE)
                      /\ \A i \in (calls[k].iter_pos + 1)..(calls[k + 1].iter_pos - 1) :
                            has_data(window_tableset, window_rows, sliding_h3_window.val.window_indexes[i], FALSE) = Ok(FALSE)

\* the probe of the first window index failed; the next call returned the
\* result set of the second one and the call after it that of the third
C29_Witness ==
    /\ sliding_h3_window.some
    /\ sliding_h3_window.val.window_indexes = <<6, 4, 5>>
    /\ Len(calls) = 3
    /\ \A k \in DOMAIN calls : calls[k].op = "fetch_next_window"
    /\ ~calls[1].result.ok /\ calls[1].iter_pos = 1
    /\ calls[2].result.ok /\ calls[2].result.val.some /\ calls[2].iter_pos = 2
    /\ calls[3].result.ok /\ calls[3].result.val.some /\ calls[3].iter_pos = 3


\* ------------------------------------------------------------------------
\* Result sets: properties

\* the positions of the calls of op in the log
CallsOf(log, op) == {k \in DOMAIN log : log[k].op = op}

\* C19: AwaitableResultSet is single-shot. The first wait_until_finished
\* awaits the query, returns what the query came to (the ColumnSet with the
\* elapsed time, or the query's error) and leaves the object without its
\* handle, whether the query succeeded or failed; every later
\* wait_until_finished on the object fails with "resultset can only be
\* awaited once", awaits nothing and leaves the object as it is.
C19_AwaitableIsSingleShot ==
    [][(Len(returns') = Len(returns) + 1 /\ returns'[Len(returns')].op = "wait_until_finished")
        => IF CallsOf(returns, "wait_until_finished") = {}
           THEN /\ awaitable.val.handle.some
                /\ returns'[Len(returns')].awaited
                /\ awaitable'.val.handle = None
                /\ IF awaitable.val.handle.val.ok
                   THEN /\ returns'[Len(returns')].result.ok
                        /\ returns'[Len(returns')].result.val[1] = awaitable.val.handle.val.val
                   ELSE returns'[Len(returns')].result = awaitable.val.handle.val
           ELSE /\ awaitable.val.handle = None
                /\ ~returns'[Len(returns')].awaited
                /\ returns'[Len(returns')].result = Err("PyRuntimeError", <<"r", "e", "s", "u", "l", "t", "s", "e", "t", " ", "c", "a", "n", " ", "o", "n", "l", "y", " ", "b", "e", " ", "a", "w", "a", "i", "t", "e", "d", " ", "o", "n", "c", "e">>)
                /\ awaitable' = awaitable]_vars

\* a failed query was waited for once and then twice more
C19_Witness ==
    /\ awaitable = Some([handle |-> None])
    /\ Len(returns) = 3
    /\ \A k \in DOMAIN returns : returns[k].op = "wait_until_finished"
    /\ returns[1].awaited /\ returns[1].result = Err("ClickhouseError", <<>>)
    /\ ~returns[2].awaited /\ returns[2].result.kind = "PyRuntimeError"
    /\ ~returns[3].awaited /\ returns[3].result.kind = "PyRuntimeError"

\* the query of a result set succeeds: it is still awaited and comes to a
\* ColumnSet, or its column data is there
QuerySucceeds(rs) ==
    \/ rs.column_data.side = "Left"
    \/ rs.column_data.val.some /\ rs.column_data.val.val.handle.some /\ rs.column_data.val.val.handle.val.ok

\* the ColumnSet a result set holds or will hold once awaited
ColumnSetOf(rs) ==
    IF rs.column_data.side = "Left" THEN rs.column_data.val.val ELSE rs.column_data.val.val.handle.val.val

\* C20: on a ResultSet whose query succeeds, the first get_columnset returns
\* the ColumnSet, waiting for the query where no accessor has waited for it
\* yet, and every later get_columnset returns none; calls of
\* get_query_duration_secs before or in between do not change that.
C20_ColumnSetHandedOutOnce ==
    [][(Len(returns') = Len(returns) + 1 /\ returns'[Len(returns')].op = "get_columnset"
            /\ QuerySucceeds(resultset.val))
        => IF CallsOf(returns, "get_columnset") = {}
           THEN /\ returns'[Len(returns')].result = Ok(Some(ColumnSetOf(resultset.val)))
                /\ returns'[Len(returns')].awaited = (resultset.val.column_data.side = "Right")
                /\ resultset'.val.column_data = [side |-> "Left", val |-> None]
           ELSE /\ returns'[Len(returns')].result = Ok(None)
                /\ ~returns'[Len(returns')].awaited
                /\ resultset' = resultset]_vars

\* a pending result set was asked for its duration, then twice for its
\* columns, then again for its duration
C20_Witness ==
    /\ resultset.some
    /\ Len(returns) = 4
    /\ returns[1].op = "get_query_duration_secs" /\ returns[1].awaited /\ returns[1].result = Ok(Some([millis |-> 1]))
    /\ returns[2].op = "get_columnset" /\ returns[2].result = Ok(Some([v |-> <<10, 20>>]))
    /\ returns[3].op = "get_columnset" /\ returns[3].result = Ok(None)
    /\ returns[4].op = "get_query_duration_secs" /\ returns[4].result = Ok(Some([millis |-> 1]))


\* the calls up to the k-th of which one awaited the query with success
AwaitedWithSuccess(log, k) ==
    \E j \in 1..k : log[j].op # "wait_until_finished" /\ log[j].awaited /\ log[j].result.ok

\* C25: a ResultSet changes state at most once, from pending (Either::Right)
\* to materialized (Either::Left), and never back; query_duration is set at
\* that transition and at no other step, so it is there iff the result set
\* was pending and its query has been awaited with success, and a result set
\* made from data never reports a duration.
C25_MaterializedOnce ==
    /\ [](resultset.some =>
            /\ resultset.val.query_duration.some = AwaitedWithSuccess(returns, Len(returns))
            /\ resultset.val.query_duration.some => resultset.val.column_data.side = "Left"
            /\ \A k \in DOMAIN returns :
                  (returns[k].op = "get_query_duration_secs" /\ returns[k].result.ok)
                      => returns[k].result.val.some = AwaitedWithSuccess(returns, k))
    /\ [][resultset.some =>
            /\ resultset.val.column_data.side = "Left" => resultset'.val.column_data.side = "Left"
            /\ (resultset.val.column_data.side = "Right" /\ resultset'.val.column_data.side = "Left")
                  <=> (resultset.val.query_duration = None /\ resultset'.val.query_duration.some)
            /\ resultset'.val.query_duration # resultset.val.query_duration => resultset.val.query_duration = None]_vars

\* a pending result set was materialized by get_columnset and then asked
\* for its duration twice
C25_Witness ==
    /\ resultset.some
    /\ resultset.val.column_data = [side |-> "Left", val |-> None]
    /\ resultset.val.query_duration = Some(2000)
    /\ Len(returns) = 3
    /\ returns[1].op = "get_columnset" /\ returns[1].awaited /\ returns[1].result.ok
    /\ returns[2].op = "get_query_duration_secs" /\ returns[2].result = Ok(Some([millis |-> 2]))
    /\ returns[3].op = "get_query_duration_secs" /\ returns[3].result = Ok(Some([millis |-> 2]))


\* the query of a result set fails or has failed: the result set is pending
\* with a query that comes to an error, or pending without its awaitable
QueryFails(rs) ==
    /\ rs.column_data.side = "Right"
    /\ rs.column_data.val.some => ~rs.column_data.val.val.handle.val.ok

\* C28: the failure of the query of a pending ResultSet is reported exactly
\* once. The first call of get_columnset or get_query_duration_secs returns
\* the error and leaves the result set pending without its awaitable; every
\* later call of either returns Ok(none): no data, no duration, no error.
C28_FailureReportedOnce ==
    [][(Len(returns') = Len(returns) + 1 /\ returns'[Len(returns')].op # "wait_until_finished"
            /\ QueryFails(resultset.val))
        => IF CallsOf(returns, "get_columnset") \cup CallsOf(returns, "get_query_duration_secs") = {}
           THEN /\ resultset.val.column_data.val.some
                /\ returns'[Len(returns')].result = resultset.val.column_data.val.val.handle.val
                /\ ~returns'[Len(returns')].result.ok
                /\ resultset'.val = [column_data |-> [side |-> "Right", val |-> None], query_duration |-> None]
           ELSE /\ returns'[Len(returns')].result = Ok(None)
                /\ resultset' = resultset
                /\ resultset.val = [column_data |-> [side |-> "Right", val |-> None], query_duration |-> None]]_vars

\* the failure was reported to get_query_duration_secs; get_columnset and
\* get_query_duration_secs then returned none
C28_Witness ==
    /\ resultset = Some([column_data |-> [side |-> "Right", val |-> None], query_duration |-> None])
    /\ Len(returns) = 3
    /\ returns[1].op = "get_query_duration_secs" /\ returns[1].result = Err("ClickhouseError", <<>>)
    /\ returns[2].op = "get_columnset" /\ returns[2].result = Ok(None)
    /\ returns[3].op = "get_query_duration_secs" /\ returns[3].result = Ok(None)


\* ------------------------------------------------------------------------
\* Tuning knobs: properties

\* the default of the knob read from the variable of that name
DefaultOf(env_name) ==
    IF env_name = ENV_NAME_CELLWALK_NUM_CLICKHOUSE_THREADS THEN 2 ELSE 3

\* C21: a knob returns its default (2 for the ClickHouse threads, 3 for the
\* concurrent queries) when its environment variable is not set or does not
\* parse as u8, and otherwise the parsed value raised to the floor 1, that
\* is max(value, 1); so what it returns is at least 1 and is the configured
\* value whenever that is at least 1.
C21_KnobIsDefaultOrRaisedToFloor ==
    knob.some =>
        /\ knob.val.value >= 1
        /\ knob.val.value =
             IF ~environment[knob.val.env_name].some THEN DefaultOf(knob.val.env_name)
             ELSE IF ~ParseU8(environment[knob.val.env_name].val).ok THEN DefaultOf(knob.val.env_name)
             ELSE IF ParseU8(environment[knob.val.env_name].val).val >= 1
                  THEN ParseU8(environment[knob.val.env_name].val).val
                  ELSE 1


\* ------------------------------------------------------------------------
\* Saving a ColumnSet: properties

\* the rows of the ColumnSet that was handed to save_columnset
RowsToSave ==
    {[h3index |-> to_save.val.columns[COL_NAME_H3INDEX].values[i],
      others |-> [n \in DOMAIN to_save.val.columns \ {COL_NAME_H3INDEX} |-> to_save.val.columns[n].values[i]]] :
        i \in DOMAIN to_save.val.columns[COL_NAME_H3INDEX].values}

\* every column of the ColumnSet is a column of the schema, with its datatype
ColumnChecksPass ==
    \A n \in DOMAIN to_save.val.columns :
        /\ n \in DOMAIN save_schema.val.columns
        /\ to_save.val.columns[n].datatype = save_schema.val.columns[n].datatype

\* no cell of the compacted data is finer than the finest base resolution of
\* the schema
ResolutionCheckPasses ==
    \A row \in to_compacted(RowsToSave) :
        \E j \in DOMAIN save_schema.val.h3_base_resolutions :
            Resolution(row.h3index) <= save_schema.val.h3_base_resolutions[j]

\* the statements executed so far
ExecutedStatements ==
    SelectSeq(executed, LAMBDA call : call.op = "execute")

\* C30: save_columnset executes no database statement when it fails with
\* ColumnNotFound, with IncompatibleDatatype or with InvalidH3Resolution;
\* when the columnset passes the column checks and holds no rows it returns
\* Ok, again without executing any statement, and a columnset without rows
\* never has a statement executed; the CREATE statements are executed only
\* after the column checks and the resolution check passed for a columnset
\* with rows, and all of them before the first insert.
C30_ChecksComeBeforeStatements ==
    saved.some =>
        /\ (~saved.val.ok /\ saved.val.kind \in {"ColumnNotFound", "IncompatibleDatatype", "InvalidH3Resolution"})
               => executed = <<>>
        /\ ~ColumnChecksPass
               => ~saved.val.ok /\ saved.val.kind \in {"ColumnNotFound", "IncompatibleDatatype"}
        /\ (ColumnChecksPass /\ ~ResolutionCheckPasses)
               => ~saved.val.ok /\ saved.val.kind = "InvalidH3Resolution"
        /\ RowsToSave = {} => executed = <<>>
        /\ (RowsToSave = {} /\ ColumnChecksPass) => saved.val = Ok(<<>>)
        /\ executed # <<>> => ColumnChecksPass /\ ResolutionCheckPasses /\ RowsToSave # {}
        /\ \A i \in DOMAIN executed :
               executed[i].op = "insert" =>
                   /\ \A j \in DOMAIN executed : executed[j].op = "execute" => j < i
                   /\ \E iter \in IterationOrders(DOMAIN save_schema.val.columns) :
                          create_statements(save_schema.val, iter).val
                              = [j \in DOMAIN ExecutedStatements |-> ExecutedStatements[j].statement]

\* two cells finer than the base resolution of the schema, that are not
\* compacted, were refused and nothing was executed
C30_Witness ==
    /\ saved = Some(Err("InvalidH3Resolution", 2))
    /\ save_schema.val.h3_base_resolutions = <<1>>
    /\ ColumnChecksPass
    /\ to_save.val.columns[COL_NAME_H3INDEX].values = <<4, 6>>
    /\ executed = <<>>

\* C30 as it is stated, for the columnset without rows: save_columnset
\* returns Ok and executes no statement
C30_NoRowsReturnsOk ==
    (saved.some /\ RowsToSave = {}) => (saved.val = Ok(<<>>) /\ executed = <<>>)


\* ------------------------------------------------------------------------
\* Uncompaction: properties

\* C7: every value of the h3index column of the result of
\* query_all_with_uncompacting is a member of the submitted set, whatever
\* rows (of the target resolution or coarser) the database returned.
C7_OnlyQueriedCells ==
    (uncompact_pc = "uncompacted" /\ columnset.ok) =>
        \A k \in 1..Len(columnset.val[COL_NAME_H3INDEX]) : columnset.val[COL_NAME_H3INDEX][k] \in h3index_set

\* reps[i] of the i-th row of the block: 1 at the target resolution, the
\* number of the cells of the set that descend from the row's cell otherwise
ExpectedReps ==
    [i \in 1..Len(block[COL_NAME_H3INDEX]) |->
        IF Resolution(block[COL_NAME_H3INDEX][i]) = h3_res.val THEN 1
        ELSE Cardinality({c \in h3index_set :
                             /\ Resolution(c) = h3_res.val
                             /\ GetParent(c, Resolution(block[COL_NAME_H3INDEX][i])) = block[COL_NAME_H3INDEX][i]})]

RECURSIVE SumTo(_, _)
\* reps[1] + ... + reps[i]
SumTo(reps, i) == IF i = 0 THEN 0 ELSE reps[i] + SumTo(reps, i - 1)

\* the row of the block that output position k stems from
SourceRow(reps, k) == CHOOSE i \in 1..Len(reps) : SumTo(reps, i - 1) < k /\ k <= SumTo(reps, i)

\* C8: in the result of query_all_with_uncompacting every column has the
\* length N, the sum of reps[i] over the rows of the block; every column but
\* h3index holds the value of row i reps[i] times, in the order of the rows;
\* the h3index at position k is the cell of the row the other columns have
\* at k, or descends from it.
C8_ColumnsRepeated ==
    (uncompact_pc = "uncompacted" /\ columnset.ok) =>
        LET reps == ExpectedReps
            N == SumTo(ExpectedReps, Len(ExpectedReps))
        IN /\ DOMAIN columnset.val = DOMAIN block
           /\ \A c \in DOMAIN block :
                 /\ Len(columnset.val[c]) = N
                 /\ c # COL_NAME_H3INDEX =>
                       \A k \in 1..N : columnset.val[c][k] = block[c][SourceRow(reps, k)]
           /\ \A k \in 1..N :
                 GetParent(columnset.val[COL_NAME_H3INDEX][k], Resolution(block[COL_NAME_H3INDEX][SourceRow(reps, k)]))
                    = block[COL_NAME_H3INDEX][SourceRow(reps, k)]

C8_Witness ==
    /\ uncompact_pc = "uncompacted"
    /\ columnset.ok
    /\ h3index_set = {4, 5}
    /\ block[COL_NAME_H3INDEX] = <<3, 2>>
    /\ block[STR_V] = <<10, 20>>
    /\ columnset.val[COL_NAME_H3INDEX] = <<4, 5>>
    /\ columnset.val[STR_V] = <<20, 20>>
    /\ columnset.val[STR_ROW] = <<2, 2>>

\* C24: query_all_with_uncompacting returns an error, and so no ColumnSet:
\* EmptyIndexes for an empty set of h3indexes, before any query is sent;
\* ColumnNotFound when the block the query returns has no h3index column;
\* InvalidH3Resolution when the cell of a returned row has a resolution
\* finer than the target resolution.
C24_UncompactingErrors ==
    uncompact_pc = "uncompacted" =>
        IF h3index_set = {}
        THEN columnset = Err("EmptyIndexes", <<>>) /\ queries_sent = 0
        ELSE IF COL_NAME_H3INDEX \notin DOMAIN block
        THEN ~columnset.ok /\ columnset.kind = "ColumnNotFound"
        ELSE (\E i \in DOMAIN block[COL_NAME_H3INDEX] : Resolution(block[COL_NAME_H3INDEX][i]) > h3_res.val)
                => ~columnset.ok /\ columnset.kind = "InvalidH3Resolution"

\* the second row of the block is finer than the cell that was asked for
C24_Witness ==
    /\ uncompact_pc = "uncompacted"
    /\ h3index_set = {2}
    /\ COL_NAME_H3INDEX \in DOMAIN block
    /\ block[COL_NAME_H3INDEX] = <<1, 4>>
    /\ queries_sent = 1
    /\ columnset = Err("InvalidH3Resolution", 2)


====
